---------------------------- MODULE Spec2Model ----------------------------
(***************************************************************************)
(* Model of the server-side drain driver (package driver, DrainService).   *)
(*                                                                         *)
(* The driver answers StartLifecycleTransition / EndLifecycleTransition    *)
(* calls and drives a node through drain (cordon + asynchronous eviction   *)
(* sweep) and uncordon.  The model keeps                                   *)
(*   - the cluster: per node the spec.unschedulable flag, per pod its      *)
(*     observed state;                                                     *)
(*   - the driver progress state: mu, activeEvent, evictionErrors;         *)
(*   - every in-flight handler (one goroutine per gRPC call) and every     *)
(*     background eviction goroutine, each with its position in the code;  *)
(*     a call's frame ends holding its response, until the response is     *)
(*     delivered.                                                          *)
(* A step is one cluster API call or one critical section of d.mu (the    *)
(* one of startDrain, which makes two writes, is two steps with the lock   *)
(* held in between), so that handlers, sweeps and the cluster interleave   *)
(* as they can in the program.                                             *)
(***************************************************************************)
EXTENDS Naturals, Integers, Sequences, FiniteSets, TLC

(***************************************************************************)
(* Lifecycle condition constants.                                          *)
(***************************************************************************)
DrainStarted == "drain-started"
DrainComplete == "drain-complete"
Uncordoning == "uncordoning"
MaintenanceComplete == "maintenance-complete"

(***************************************************************************)
(* Bounds of the model.                                                    *)
(***************************************************************************)
\* Pods of the cluster (pod p is named p).
NumPods == 4
\* gRPC calls the driver handles at the same time.
MaxHandlers == 1
\* Background eviction goroutines alive at the same time.
MaxSweeps == 2

\* A pod is bound to the node only while fewer workload pods than this are on it.
MaxBound == 1
\* Pods a stand-alone listing holds.
MaxItems == 2

Pods == 1..NumPods
Handlers == 1..MaxHandlers
Sweeps == 1..MaxSweeps

\* The node this instance manages (d.nodeName) and another node of the cluster.
DefaultNode == "n1"
Nodes == {"n1"}
\* Node names a request may carry: empty selects d.nodeName.
ReqNodes == {""} \cup Nodes
\* A name an End request may carry that names no node of the cluster: a read
\* of that node fails (NotFound) and no pod is bound to it.
AbsentNodes == {"n2"}
\* Event names a request may carry.
Events == {"e1", "e2"}
\* Condition labels a request may carry in its start / end field: the four
\* published ones and the absent label.
Labels == {"", DrainStarted, DrainComplete, Uncordoning, MaintenanceComplete}

(***************************************************************************)
(* The pods.  What never changes of a pod is fixed by its number: pod 1 is *)
(* owned by a ReplicaSet (as is every pod past 3), pod 2 is a mirror pod,  *)
(* pod 3 is owned by a DaemonSet.  All pods are bound to the driver's node.*)
(***************************************************************************)
PodNode(p) == DefaultNode
PodMirror(p) == p = 2
PodOwners(p) == IF p = 3 THEN <<"DaemonSet">>
                ELSE IF p = 2 THEN <<>>
                ELSE <<"ReplicaSet">>
PodNamespace(p) == IF p = 2 \/ p = 3 THEN "kube-system" ELSE "default"
\* Mirror and DaemonSet pods stay as they are; the workload pods change.
Workload(p) == p # 2 /\ p # 3

PodStates == {"Running", "Succeeded", "Terminating", "Gone"}
\* The workload pods on the node when the driver starts.
InitialWorkload == {1}

VARIABLES
    nodeUnsched,     \* cluster: node -> spec.unschedulable
    podState,        \* cluster: pod -> Running | Succeeded | Terminating | Gone
    mu,              \* d.mu: who holds the lock
    activeEvent,     \* d.activeEvent
    evictionErrors,  \* d.evictionErrors: podKey -> last error
    handlers,        \* in-flight gRPC calls: slot -> call frame
    sweeps,          \* background eviction goroutines: slot -> frame
    lastOp,          \* node -> the cordon/uncordon that returned nil last, no node write since
    listCall         \* a listEvictablePods call on a listing of any pods: its loop

vars == <<nodeUnsched, podState, mu, activeEvent, evictionErrors, handlers,
          sweeps, lastOp, listCall>>

(***************************************************************************)
(* Pod records as the API serves them, and the eligibility filter.         *)
(***************************************************************************)
PodRecord(p) ==
    [Name |-> p,
     Namespace |-> PodNamespace(p),
     NodeName |-> PodNode(p),
     Mirror |-> PodMirror(p),
     OwnerReferences |-> PodOwners(p),
     DeletionTimestamp |-> podState[p] = "Terminating",
     Phase |-> IF podState[p] = "Succeeded" THEN "Succeeded" ELSE "Running"]

RECURSIVE PodListFrom(_, _)
\* Pods("").List with FieldSelector spec.nodeName = n: the pods from p on.
PodListFrom(p, n) ==
    IF p > NumPods THEN <<>>
    ELSE (IF podState[p] # "Gone" /\ PodNode(p) = n THEN <<PodRecord(p)>> ELSE <<>>)
         \o PodListFrom(p + 1, n)

PodList(n) == PodListFrom(1, n)

IsDaemonSet(pod) ==
    \E i \in 1..Len(pod.OwnerReferences) : pod.OwnerReferences[i] = "DaemonSet"

\* A filter that keeps the mirror pods: the variant C13 must tell from the code.
isEvictable_KeepsMirror(pod) ==
    /\ ~IsDaemonSet(pod)
    /\ ~pod.DeletionTimestamp
    /\ pod.Phase \notin {"Succeeded", "Failed"}

\* A filter that keeps the pods that are terminating: the variant C11 must
\* tell from the code.
isEvictable_KeepsTerminating(pod) ==
    /\ ~pod.Mirror
    /\ ~IsDaemonSet(pod)
    /\ pod.Phase \notin {"Succeeded", "Failed"}

\* The body of listEvictablePods' loop: which pods are kept.
isEvictable(pod) ==
    /\ ~pod.Mirror
    /\ ~IsDaemonSet(pod)
    /\ ~pod.DeletionTimestamp
    /\ pod.Phase \notin {"Succeeded", "Failed"}

podInfo(pod) == [Name |-> pod.Name, Namespace |-> pod.Namespace]

RECURSIVE FilterEvictable(_)
FilterEvictable(items) ==
    IF items = <<>> THEN <<>>
    ELSE (IF isEvictable(Head(items)) THEN <<podInfo(Head(items))>> ELSE <<>>)
         \o FilterEvictable(Tail(items))

\* listEvictablePods when the List call succeeds.
listEvictablePods(n) == FilterEvictable(PodList(n))

\* p.Namespace + "/" + p.Name
PodKey(info) == <<info.Namespace, info.Name>>
PodKeys == {<<PodNamespace(p), p>> : p \in Pods}

Names(infos) == {infos[i].Name : i \in 1..Len(infos)}

(***************************************************************************)
(* Frames.                                                                 *)
(***************************************************************************)
Free == [who |-> "none", id |-> 0]
HeldByHandler(h) == [who |-> "handler", id |-> h]

\* What lastOp keeps of a cordonNode / uncordonNode that returned nil: which
\* of the two, and the node writes it made.
NoOp == [op |-> "none", writes |-> 0]
Done(op, w) == [op |-> op, writes |-> w]

\* A call's frame: the request (start, end, event, node = targetNode), where
\* the call stands (pc), what it has read and written so far, and at the end
\* its response: a payload (cond, err) or the failure of the call (fail).
\* A field of the request is drawn where the code first reads it (a field it
\* never reads stays empty): the caller fixed it before, but nothing the driver
\* did until then could depend on it.  calls and writes count the cluster API
\* calls and the node writes the call has made, saw is what endUncordon's own
\* Get read, listed what endDrain's listing held, prior is lastOp as the
\* cordonNode / uncordonNode in progress found it at its Get, and sweep is the
\* goroutine the call launched.  eventBefore and errorsBefore are what a
\* Drain.Start found on entry: d.activeEvent, and whether d.evictionErrors
\* held an entry; they are kept until the cordon is known to have succeeded.
IdleHandler ==
    [kind |-> "idle", pc |-> "idle", start |-> "", end |-> "", event |-> "",
     node |-> "", saw |-> "none", stale |-> FALSE, calls |-> 0, writes |-> 0,
     opErr |-> "", prior |-> NoOp, sweep |-> 0, cond |-> "", err |-> "",
     fail |-> FALSE, listErr |-> FALSE, listed |-> {},
     eventBefore |-> "", errorsBefore |-> FALSE]

\* A goroutine's frame: evictAllPods' locals, whether bgCtx is done (expired)
\* and whether the call that launched it had cordoned the node; tried is the
\* EvictV1 calls made so far and whether each returned nil, overdue whether
\* the call in flight has lasted d.evictionTimeout, superseded whether a
\* later Drain.Start has replaced d.evictionErrors since the launch.
IdleSweep ==
    [pc |-> "idle", node |-> "", pods |-> <<>>, i |-> 0, evicted |-> 0,
     failed |-> 0, total |-> 0, err |-> "", expired |-> FALSE, cordoned |-> FALSE,
     tried |-> <<>>, overdue |-> FALSE, superseded |-> FALSE]

\* make(map[string]string)
NoErrors == [k \in {} |-> ""]

\* No stand-alone listing call: the driver lists through its handlers and sweeps.
NoListCall == [Items |-> <<>>, i |-> 0, evictable |-> <<>>]

\* The driver after NewDrainService, whatever the cluster holds.
DriverInit ==
    /\ nodeUnsched = [n \in Nodes |-> FALSE]
    /\ mu = Free
    /\ activeEvent = ""
    /\ evictionErrors = NoErrors
    /\ handlers = [h \in Handlers |-> IdleHandler]
    /\ sweeps = [s \in Sweeps |-> IdleSweep]
    /\ lastOp = [n \in Nodes |-> NoOp]

Init ==
    /\ DriverInit
    /\ podState = [p \in Pods |->
                      IF Workload(p) /\ p \notin InitialWorkload THEN "Gone" ELSE "Running"]
    /\ listCall = NoListCall

(***************************************************************************)
(* Helpers of the steps.                                                   *)
(***************************************************************************)
\* The lowest free slot: which slot a new goroutine takes is immaterial.
FreeHandler(h) == handlers[h].kind = "idle" /\ \A x \in 1..(h - 1) : handlers[x].kind # "idle"
FreeSweep(s) == sweeps[s].pc = "idle" /\ \A x \in 1..(s - 1) : sweeps[x].pc # "idle"

\* Drain.Start calls past dispatch that have not launched their goroutine yet.
PendingLaunch ==
    {h \in Handlers : handlers[h].kind = "DrainStart"
                      /\ handlers[h].pc \notin {"return", "responded"}}
Running == {s \in Sweeps : sweeps[s].pc # "idle"}
\* A further Drain.Start is taken only while a goroutine slot is left for it.
SweepRoom == Cardinality(PendingLaunch) + Cardinality(Running) < MaxSweeps

\* A node write is seen by every read-modify-write in progress on that node:
\* the object it read is stale and its own Update will be rejected.
MarkStale(hs, n) ==
    [x \in Handlers |->
        IF hs[x].node = n /\ hs[x].pc \in {"cordonUpdate", "uncordonUpdate"}
        THEN [hs[x] EXCEPT !.stale = TRUE] ELSE hs[x]]

\* return &LifecycleTransitionResponse{LifecycleCondition: cond, Error: err}, nil
Respond(f, cond, err) ==
    [f EXCEPT !.pc = "responded", !.cond = cond, !.err = err, !.prior = NoOp]

\* return nil, fmt.Errorf(...): no response, the call itself fails.
Fail(f) == [f EXCEPT !.pc = "responded", !.fail = TRUE]

\* A dispatch whose default case drains: the variant C6 must tell from the code.
StartLifecycleTransition_DefaultDrains(h) ==
    /\ FreeHandler(h)
    /\ \E start \in Labels, rn \in ReqNodes :
          LET targetNode == IF rn = "" THEN DefaultNode ELSE rn
              f == [IdleHandler EXCEPT !.start = start, !.node = targetNode]
          IN  \/ /\ start = Uncordoning
                 /\ handlers' = [handlers EXCEPT ![h] =
                        [f EXCEPT !.kind = "UncordonStart", !.pc = "uncordonGet"]]
              \/ /\ start # Uncordoning
                 /\ SweepRoom
                 /\ handlers' = [handlers EXCEPT ![h] =
                        [f EXCEPT !.kind = "DrainStart", !.pc = "lock"]]
    /\ UNCHANGED <<nodeUnsched, podState, mu, activeEvent, evictionErrors, sweeps, lastOp>>
    /\ UNCHANGED listCall

(***************************************************************************)
(* StartLifecycleTransition: dispatch on req.GetStart().                   *)
(***************************************************************************)
StartLifecycleTransition(h) ==
    /\ FreeHandler(h)
    /\ \E start \in Labels, rn \in ReqNodes :
          LET targetNode == IF rn = "" THEN DefaultNode ELSE rn
              f == [IdleHandler EXCEPT !.start = start, !.node = targetNode]
          IN  \/ /\ start = Uncordoning
                 /\ handlers' = [handlers EXCEPT ![h] =
                        [f EXCEPT !.kind = "UncordonStart", !.pc = "uncordonGet"]]
              \/ /\ start = DrainStarted
                 /\ SweepRoom
                 /\ handlers' = [handlers EXCEPT ![h] =
                        [f EXCEPT !.kind = "DrainStart", !.pc = "lock",
                                  !.eventBefore = activeEvent,
                                  !.errorsBefore = (evictionErrors # NoErrors)]]
              \/ /\ start \notin {Uncordoning, DrainStarted}
                 /\ handlers' = [handlers EXCEPT ![h] = Fail([f EXCEPT !.kind = "StartRejected"])]
    /\ UNCHANGED <<nodeUnsched, podState, mu, activeEvent, evictionErrors, sweeps, lastOp>>
    /\ UNCHANGED listCall

(***************************************************************************)
(* EndLifecycleTransition: dispatch on req.GetEnd().                       *)
(***************************************************************************)
EndLifecycleTransition(h) ==
    /\ FreeHandler(h)
    /\ \E end \in Labels, rn \in ReqNodes \cup AbsentNodes :
          LET targetNode == IF rn = "" THEN DefaultNode ELSE rn
              f == [IdleHandler EXCEPT !.end = end, !.node = targetNode]
          IN  \/ /\ end = MaintenanceComplete
                 /\ handlers' = [handlers EXCEPT ![h] =
                        [f EXCEPT !.kind = "UncordonEnd", !.pc = "get"]]
              \/ /\ end = DrainComplete
                 /\ handlers' = [handlers EXCEPT ![h] =
                        [f EXCEPT !.kind = "DrainEnd", !.pc = "list"]]
              \/ /\ end \notin {MaintenanceComplete, DrainComplete}
                 /\ handlers' = [handlers EXCEPT ![h] = Fail([f EXCEPT !.kind = "EndRejected"])]
    /\ UNCHANGED <<nodeUnsched, podState, mu, activeEvent, evictionErrors, sweeps, lastOp>>
    /\ UNCHANGED listCall

\* The response leaves the driver: the call's goroutine ends.
deliver(h) ==
    /\ handlers[h].pc = "responded"
    /\ handlers' = [handlers EXCEPT ![h] = IdleHandler]
    /\ UNCHANGED <<nodeUnsched, podState, mu, activeEvent, evictionErrors, sweeps, lastOp>>
    /\ UNCHANGED listCall

(***************************************************************************)
(* startDrain.                                                             *)
(***************************************************************************)
\* A startDrain that gives up the lock between its two writes: the variant
\* C20 must tell from the code.
startDrainSetEvent_Unlocks(h) ==
    /\ handlers[h].kind = "DrainStart" /\ handlers[h].pc = "lock"
    /\ mu = Free
    /\ mu' = Free
    /\ \E ev \in Events :
          /\ activeEvent' = ev
          /\ handlers' = [handlers EXCEPT ![h] = [@ EXCEPT !.pc = "resetErrors", !.event = ev]]
    /\ UNCHANGED <<nodeUnsched, podState, evictionErrors, sweeps, lastOp>>
    /\ UNCHANGED listCall

\* d.mu.Lock(); d.activeEvent = req.GetEventName()
startDrainSetEvent(h) ==
    /\ handlers[h].kind = "DrainStart" /\ handlers[h].pc = "lock"
    /\ mu = Free
    /\ mu' = HeldByHandler(h)
    /\ \E ev \in Events :
          /\ activeEvent' = ev
          /\ handlers' = [handlers EXCEPT ![h] = [@ EXCEPT !.pc = "resetErrors", !.event = ev]]
    /\ UNCHANGED <<nodeUnsched, podState, evictionErrors, sweeps, lastOp>>
    /\ UNCHANGED listCall

\* A startDrain that starts its eviction goroutine before it cordons the
\* node: the variant C24 must tell from the code.
startDrainResetErrors_SweepsFirst(h) ==
    /\ handlers[h].kind = "DrainStart" /\ handlers[h].pc = "resetErrors"
    /\ evictionErrors' = NoErrors
    /\ mu' = Free
    /\ handlers' = [handlers EXCEPT ![h].pc = "cordonGet"]
    /\ \E s \in Sweeps :
          /\ FreeSweep(s)
          /\ sweeps' = [x \in Sweeps |->
                           IF x = s THEN [IdleSweep EXCEPT !.pc = "list",
                                                           !.node = handlers[h].node]
                           ELSE IF sweeps[x].pc # "idle"
                                THEN [sweeps[x] EXCEPT !.superseded = TRUE]
                                ELSE sweeps[x]]
    /\ UNCHANGED <<nodeUnsched, podState, activeEvent, lastOp>>
    /\ UNCHANGED listCall

\* d.evictionErrors = make(map[string]string); d.mu.Unlock()
startDrainResetErrors(h) ==
    /\ handlers[h].kind = "DrainStart" /\ handlers[h].pc = "resetErrors"
    /\ evictionErrors' = NoErrors
    /\ mu' = Free
    /\ handlers' = [handlers EXCEPT ![h].pc = "cordonGet"]
    /\ sweeps' = [s \in Sweeps |->
                     IF sweeps[s].pc # "idle" THEN [sweeps[s] EXCEPT !.superseded = TRUE]
                     ELSE sweeps[s]]
    /\ UNCHANGED <<nodeUnsched, podState, activeEvent, lastOp>>
    /\ UNCHANGED listCall

\* A cordonNode that updates the node whatever it read: the variant C10 must
\* tell from the code.
cordonNodeGet_AlwaysUpdates(h) ==
    /\ handlers[h].pc = "cordonGet"
    /\ LET f == handlers[h]
           n == f.node
       IN  \/ handlers' = [handlers EXCEPT ![h] =
                  [f EXCEPT !.pc = "cordoned", !.opErr = "get node failed",
                            !.calls = f.calls + 1]]
           \/ handlers' = [handlers EXCEPT ![h] =
                  [f EXCEPT !.pc = "cordonUpdate", !.stale = FALSE, !.prior = lastOp[n],
                            !.calls = f.calls + 1]]
    /\ UNCHANGED <<nodeUnsched, podState, mu, activeEvent, evictionErrors, sweeps, lastOp>>
    /\ UNCHANGED listCall

(***************************************************************************)
(* cordonNode: Get, then Update unless the flag is already set.  The frame *)
(* ends at "cordoned" with the error cordonNode returns in opErr.          *)
(***************************************************************************)
cordonNodeGet(h) ==
    /\ handlers[h].pc = "cordonGet"
    /\ LET f == handlers[h]
           n == f.node
       IN  \/ \* Get fails
              /\ handlers' = [handlers EXCEPT ![h] =
                     [f EXCEPT !.pc = "cordoned", !.opErr = "get node failed",
                               !.calls = f.calls + 1]]
              /\ UNCHANGED lastOp
           \/ \* already cordoned
              /\ nodeUnsched[n]
              /\ handlers' = [handlers EXCEPT ![h] =
                     [f EXCEPT !.pc = "cordoned", !.opErr = "", !.prior = lastOp[n],
                               !.calls = f.calls + 1]]
              /\ lastOp' = [lastOp EXCEPT ![n] = Done("cordon", 0)]
           \/ /\ ~nodeUnsched[n]
              /\ handlers' = [handlers EXCEPT ![h] =
                     [f EXCEPT !.pc = "cordonUpdate", !.stale = FALSE, !.prior = lastOp[n],
                               !.calls = f.calls + 1]]
              /\ UNCHANGED lastOp
    /\ UNCHANGED <<nodeUnsched, podState, mu, activeEvent, evictionErrors, sweeps>>
    /\ UNCHANGED listCall

cordonNodeUpdate(h) ==
    /\ handlers[h].pc = "cordonUpdate"
    /\ LET f == handlers[h]
           n == f.node
       IN  \/ \* Update fails: the server is unreachable, or the object read is stale
              /\ \E cause \in (IF f.stale THEN {"conflict"} ELSE {"update node failed"}) :
                    handlers' = [handlers EXCEPT ![h] =
                        [f EXCEPT !.pc = "cordoned", !.opErr = cause, !.stale = FALSE,
                                  !.calls = f.calls + 1]]
              /\ UNCHANGED <<nodeUnsched, lastOp>>
           \/ /\ ~f.stale
              /\ nodeUnsched' = [nodeUnsched EXCEPT ![n] = TRUE]
              /\ handlers' = MarkStale([handlers EXCEPT ![h] =
                     [f EXCEPT !.pc = "cordoned", !.opErr = "", !.writes = f.writes + 1,
                               !.calls = f.calls + 1]], n)
              /\ lastOp' = [lastOp EXCEPT ![n] = Done("cordon", 1)]
    /\ UNCHANGED <<podState, mu, activeEvent, evictionErrors, sweeps>>
    /\ UNCHANGED listCall

\* A startDrain that starts the eviction goroutine before it looks at the
\* error of cordonNode: the variant C4 must tell from the code.
startDrainCordoned_SweepBeforeCheck(h) ==
    /\ handlers[h].kind = "DrainStart" /\ handlers[h].pc = "cordoned"
    /\ LET f == handlers[h]
       IN  \E s \in Sweeps :
              /\ FreeSweep(s)
              /\ sweeps' = [sweeps EXCEPT ![s] =
                     [IdleSweep EXCEPT !.pc = "list", !.node = f.node,
                                       !.cordoned = (f.opErr = "")]]
              /\ handlers' = [handlers EXCEPT ![h] =
                     IF f.opErr # ""
                     THEN Respond([f EXCEPT !.sweep = s], "", "cordon node: " \o f.opErr)
                     ELSE [f EXCEPT !.pc = "return", !.sweep = s]]
    /\ UNCHANGED <<nodeUnsched, podState, mu, activeEvent, evictionErrors, lastOp>>
    /\ UNCHANGED listCall

\* if err := d.cordonNode(...); err != nil { return error response }; go func() {...}()
startDrainCordoned(h) ==
    /\ handlers[h].kind = "DrainStart" /\ handlers[h].pc = "cordoned"
    /\ LET f == handlers[h]
       IN  \/ /\ f.opErr # ""
              /\ handlers' = [handlers EXCEPT ![h] = Respond(f, "", "cordon node: " \o f.opErr)]
              /\ UNCHANGED sweeps
           \/ /\ f.opErr = ""
              /\ \E s \in Sweeps :
                    /\ FreeSweep(s)
                    /\ sweeps' = [sweeps EXCEPT ![s] =
                           [IdleSweep EXCEPT !.pc = "list", !.node = f.node,
                                             !.cordoned = (f.opErr = "")]]
                    /\ handlers' = [handlers EXCEPT ![h] =
                           [f EXCEPT !.pc = "return", !.sweep = s,
                                     !.eventBefore = "", !.errorsBefore = FALSE]]
    /\ UNCHANGED <<nodeUnsched, podState, mu, activeEvent, evictionErrors, lastOp>>
    /\ UNCHANGED listCall

\* A startDrain that joins its eviction goroutine before it returns: the
\* variant C5 must tell from the code.
startDrainReturn_AfterSweep(h) ==
    /\ handlers[h].kind = "DrainStart" /\ handlers[h].pc = "return"
    /\ sweeps[handlers[h].sweep].pc \in {"idle", "done"}
    /\ handlers' = [handlers EXCEPT ![h] = Respond(handlers[h], handlers[h].start, "")]
    /\ UNCHANGED <<nodeUnsched, podState, mu, activeEvent, evictionErrors, sweeps, lastOp>>
    /\ UNCHANGED listCall

\* return &Response{LifecycleCondition: req.GetStart(), NodeName: targetNode}
startDrainReturn(h) ==
    /\ handlers[h].kind = "DrainStart" /\ handlers[h].pc = "return"
    /\ handlers' = [handlers EXCEPT ![h] = Respond(handlers[h], handlers[h].start, "")]
    /\ UNCHANGED <<nodeUnsched, podState, mu, activeEvent, evictionErrors, sweeps, lastOp>>
    /\ UNCHANGED listCall

\* An uncordonNode that updates the node whatever it read: the variant C14
\* must tell from the code.
uncordonNodeGet_AlwaysUpdates(h) ==
    /\ handlers[h].pc = "uncordonGet"
    /\ LET f == handlers[h]
           n == f.node
       IN  \/ handlers' = [handlers EXCEPT ![h] =
                  [f EXCEPT !.pc = "uncordoned", !.opErr = "get node failed",
                            !.calls = f.calls + 1]]
           \/ handlers' = [handlers EXCEPT ![h] =
                  [f EXCEPT !.pc = "uncordonUpdate", !.stale = FALSE, !.prior = lastOp[n],
                            !.calls = f.calls + 1]]
    /\ UNCHANGED <<nodeUnsched, podState, mu, activeEvent, evictionErrors, sweeps, lastOp>>
    /\ UNCHANGED listCall

(***************************************************************************)
(* uncordonNode: Get, then Update unless the flag is already clear.  The   *)
(* frame ends at "uncordoned" with the error uncordonNode returns in opErr.*)
(***************************************************************************)
uncordonNodeGet(h) ==
    /\ handlers[h].pc = "uncordonGet"
    /\ LET f == handlers[h]
           n == f.node
       IN  \/ \* Get fails
              /\ handlers' = [handlers EXCEPT ![h] =
                     [f EXCEPT !.pc = "uncordoned", !.opErr = "get node failed",
                               !.calls = f.calls + 1]]
              /\ UNCHANGED lastOp
           \/ \* already schedulable
              /\ ~nodeUnsched[n]
              /\ handlers' = [handlers EXCEPT ![h] =
                     [f EXCEPT !.pc = "uncordoned", !.opErr = "", !.prior = lastOp[n],
                               !.calls = f.calls + 1]]
              /\ lastOp' = [lastOp EXCEPT ![n] = Done("uncordon", 0)]
           \/ /\ nodeUnsched[n]
              /\ handlers' = [handlers EXCEPT ![h] =
                     [f EXCEPT !.pc = "uncordonUpdate", !.stale = FALSE, !.prior = lastOp[n],
                               !.calls = f.calls + 1]]
              /\ UNCHANGED lastOp
    /\ UNCHANGED <<nodeUnsched, podState, mu, activeEvent, evictionErrors, sweeps>>
    /\ UNCHANGED listCall

uncordonNodeUpdate(h) ==
    /\ handlers[h].pc = "uncordonUpdate"
    /\ LET f == handlers[h]
           n == f.node
       IN  \/ \* Update fails: the server is unreachable, or the object read is stale
              /\ \E cause \in (IF f.stale THEN {"conflict"} ELSE {"update node failed"}) :
                    handlers' = [handlers EXCEPT ![h] =
                        [f EXCEPT !.pc = "uncordoned", !.opErr = cause, !.stale = FALSE,
                                  !.calls = f.calls + 1]]
              /\ UNCHANGED <<nodeUnsched, lastOp>>
           \/ /\ ~f.stale
              /\ nodeUnsched' = [nodeUnsched EXCEPT ![n] = FALSE]
              /\ handlers' = MarkStale([handlers EXCEPT ![h] =
                     [f EXCEPT !.pc = "uncordoned", !.opErr = "", !.writes = f.writes + 1,
                               !.calls = f.calls + 1]], n)
              /\ lastOp' = [lastOp EXCEPT ![n] = Done("uncordon", 1)]
    /\ UNCHANGED <<podState, mu, activeEvent, evictionErrors, sweeps>>
    /\ UNCHANGED listCall

\* A startUncordon that sets the condition label on its error response too:
\* the variant C7 must tell from the code.
startUncordonReturn_LabelOnError(h) ==
    /\ handlers[h].kind = "UncordonStart" /\ handlers[h].pc = "uncordoned"
    /\ LET f == handlers[h]
       IN  handlers' = [handlers EXCEPT ![h] =
              IF f.opErr # "" THEN Respond(f, f.start, "uncordon node: " \o f.opErr)
              ELSE Respond(f, f.start, "")]
    /\ UNCHANGED <<nodeUnsched, podState, mu, activeEvent, evictionErrors, sweeps, lastOp>>
    /\ UNCHANGED listCall

(***************************************************************************)
(* startUncordon.                                                          *)
(***************************************************************************)
startUncordonReturn(h) ==
    /\ handlers[h].kind = "UncordonStart" /\ handlers[h].pc = "uncordoned"
    /\ LET f == handlers[h]
       IN  handlers' = [handlers EXCEPT ![h] =
              IF f.opErr # "" THEN Respond(f, "", "uncordon node: " \o f.opErr)
              ELSE Respond(f, f.start, "")]
    /\ UNCHANGED <<nodeUnsched, podState, mu, activeEvent, evictionErrors, sweeps, lastOp>>
    /\ UNCHANGED listCall

\* An endDrain that starts an eviction goroutine of its own when pods remain:
\* the variant C16 must tell from the code.
endDrainList_SweepsAgain(h) ==
    /\ handlers[h].kind = "DrainEnd" /\ handlers[h].pc = "list"
    /\ LET f == handlers[h]
           pods == listEvictablePods(f.node)
       IN  \/ /\ handlers' = [handlers EXCEPT ![h] =
                     Respond([f EXCEPT !.listErr = TRUE, !.calls = f.calls + 1],
                             "", "list pods: " \o "list failed")]
              /\ UNCHANGED sweeps
           \/ /\ Len(pods) = 0
              /\ handlers' = [handlers EXCEPT ![h] = [f EXCEPT !.pc = "lock", !.calls = f.calls + 1]]
              /\ UNCHANGED sweeps
           \/ /\ Len(pods) # 0
              /\ \E start \in Labels :
                    handlers' = [handlers EXCEPT ![h] =
                        Respond([f EXCEPT !.listed = Names(pods), !.start = start,
                                           !.calls = f.calls + 1], start, "")]
              /\ IF \E s \in Sweeps : sweeps[s].pc = "idle"
                 THEN \E s \in Sweeps :
                         /\ FreeSweep(s)
                         /\ sweeps' = [sweeps EXCEPT ![s] =
                                [IdleSweep EXCEPT !.pc = "list", !.node = f.node,
                                                  !.cordoned = TRUE]]
                 ELSE UNCHANGED sweeps
    /\ UNCHANGED <<nodeUnsched, podState, mu, activeEvent, evictionErrors, lastOp>>
    /\ UNCHANGED listCall

\* An endDrain that answers from d.activeEvent when pods remain, taking an
\* empty active event for a finished drain: the variant C8 must tell from
\* the code.
endDrainList_TrustsActiveEvent(h) ==
    /\ handlers[h].kind = "DrainEnd" /\ handlers[h].pc = "list"
    /\ LET f == handlers[h]
           pods == listEvictablePods(f.node)
       IN  \/ handlers' = [handlers EXCEPT ![h] =
                  Respond([f EXCEPT !.listErr = TRUE, !.calls = f.calls + 1],
                          "", "list pods: " \o "list failed")]
           \/ /\ Len(pods) = 0
              /\ handlers' = [handlers EXCEPT ![h] = [f EXCEPT !.pc = "lock", !.calls = f.calls + 1]]
           \/ /\ Len(pods) # 0
              /\ \E start \in Labels :
                    handlers' = [handlers EXCEPT ![h] =
                        Respond([f EXCEPT !.listed = Names(pods), !.start = start,
                                           !.calls = f.calls + 1],
                                IF activeEvent = "" THEN f.end ELSE start, "")]
    /\ UNCHANGED <<nodeUnsched, podState, mu, activeEvent, evictionErrors, sweeps, lastOp>>
    /\ UNCHANGED listCall

\* An endDrain that clears the active event whatever it lists: the variant
\* C25 must tell from the code.
endDrainList_ClearsAlways(h) ==
    /\ handlers[h].kind = "DrainEnd" /\ handlers[h].pc = "list"
    /\ LET f == handlers[h]
           pods == listEvictablePods(f.node)
       IN  \/ /\ handlers' = [handlers EXCEPT ![h] =
                     Respond([f EXCEPT !.listErr = TRUE, !.calls = f.calls + 1],
                             "", "list pods: " \o "list failed")]
              /\ UNCHANGED activeEvent
           \/ /\ Len(pods) = 0
              /\ handlers' = [handlers EXCEPT ![h] = [f EXCEPT !.pc = "lock", !.calls = f.calls + 1]]
              /\ UNCHANGED activeEvent
           \/ /\ Len(pods) # 0
              /\ mu = Free
              /\ activeEvent' = ""
              /\ \E start \in Labels :
                    handlers' = [handlers EXCEPT ![h] =
                        Respond([f EXCEPT !.listed = Names(pods), !.start = start,
                                           !.calls = f.calls + 1], start, "")]
    /\ UNCHANGED <<nodeUnsched, podState, mu, evictionErrors, sweeps, lastOp>>
    /\ UNCHANGED listCall

(***************************************************************************)
(* endDrain.                                                               *)
(***************************************************************************)
\* pods, err := d.listEvictablePods(ctx, targetNode), and the two returns
\* that touch nothing shared.
endDrainList(h) ==
    /\ handlers[h].kind = "DrainEnd" /\ handlers[h].pc = "list"
    /\ LET f == handlers[h]
           pods == listEvictablePods(f.node)
       IN  \/ \* the List call fails
              handlers' = [handlers EXCEPT ![h] =
                  Respond([f EXCEPT !.listErr = TRUE, !.calls = f.calls + 1],
                          "", "list pods: " \o "list failed")]
           \/ /\ Len(pods) = 0
              /\ handlers' = [handlers EXCEPT ![h] = [f EXCEPT !.pc = "lock", !.calls = f.calls + 1]]
           \/ /\ Len(pods) # 0
              /\ \E start \in Labels :
                    handlers' = [handlers EXCEPT ![h] =
                        Respond([f EXCEPT !.listed = Names(pods), !.start = start,
                                           !.calls = f.calls + 1], start, "")]
    /\ UNCHANGED <<nodeUnsched, podState, mu, activeEvent, evictionErrors, sweeps, lastOp>>
    /\ UNCHANGED listCall

\* An endDrain that clears the active event only when the request is for
\* the node this instance manages: the variant C28 must tell from the code.
endDrainClear_OnlyOwnNode(h) ==
    /\ handlers[h].kind = "DrainEnd" /\ handlers[h].pc = "lock"
    /\ mu = Free
    /\ activeEvent' = IF handlers[h].node = DefaultNode THEN "" ELSE activeEvent
    /\ handlers' = [handlers EXCEPT ![h] = Respond(handlers[h], handlers[h].end, "")]
    /\ UNCHANGED <<nodeUnsched, podState, mu, evictionErrors, sweeps, lastOp>>
    /\ UNCHANGED listCall

\* d.mu.Lock(); d.activeEvent = ""; d.mu.Unlock(); return the end condition
endDrainClear(h) ==
    /\ handlers[h].kind = "DrainEnd" /\ handlers[h].pc = "lock"
    /\ mu = Free
    /\ activeEvent' = ""
    /\ handlers' = [handlers EXCEPT ![h] = Respond(handlers[h], handlers[h].end, "")]
    /\ UNCHANGED <<nodeUnsched, podState, mu, evictionErrors, sweeps, lastOp>>
    /\ UNCHANGED listCall

\* An endUncordon that only reports a node it reads unschedulable and leaves
\* the uncordon to the caller: the variant C23 must tell from the code.
endUncordonGet_OnlyReports(h) ==
    /\ handlers[h].kind = "UncordonEnd" /\ handlers[h].pc = "get"
    /\ LET f == handlers[h]
       IN  \/ handlers' = [handlers EXCEPT ![h] =
                  Respond([f EXCEPT !.saw = "error", !.calls = f.calls + 1],
                          "", "get node: " \o "get node failed")]
           \/ /\ f.node \in Nodes /\ ~nodeUnsched[f.node]
              /\ handlers' = [handlers EXCEPT ![h] =
                     Respond([f EXCEPT !.saw = "schedulable", !.calls = f.calls + 1], f.end, "")]
           \/ /\ f.node \in Nodes /\ nodeUnsched[f.node]
              /\ \E start \in Labels :
                    handlers' = [handlers EXCEPT ![h] =
                        Respond([f EXCEPT !.saw = "unschedulable", !.start = start,
                                           !.calls = f.calls + 1], start, "")]
    /\ UNCHANGED <<nodeUnsched, podState, mu, activeEvent, evictionErrors, sweeps, lastOp>>
    /\ UNCHANGED listCall

(***************************************************************************)
(* endUncordon.                                                            *)
(***************************************************************************)
\* node, err := Nodes().Get(...), and the two returns before the retry.
endUncordonGet(h) ==
    /\ handlers[h].kind = "UncordonEnd" /\ handlers[h].pc = "get"
    /\ LET f == handlers[h]
       IN  \/ \* Get fails
              handlers' = [handlers EXCEPT ![h] =
                  Respond([f EXCEPT !.saw = "error", !.calls = f.calls + 1],
                          "", "get node: " \o "get node failed")]
           \/ /\ f.node \in Nodes /\ ~nodeUnsched[f.node]
              /\ handlers' = [handlers EXCEPT ![h] =
                     Respond([f EXCEPT !.saw = "schedulable", !.calls = f.calls + 1], f.end, "")]
           \/ /\ f.node \in Nodes /\ nodeUnsched[f.node]
              /\ handlers' = [handlers EXCEPT ![h] =
                     [f EXCEPT !.saw = "unschedulable", !.pc = "uncordonGet",
                               !.calls = f.calls + 1]]
    /\ UNCHANGED <<nodeUnsched, podState, mu, activeEvent, evictionErrors, sweeps, lastOp>>
    /\ UNCHANGED listCall

\* if err := d.uncordonNode(...); err != nil { error } ; return the start condition
endUncordonReturn(h) ==
    /\ handlers[h].kind = "UncordonEnd" /\ handlers[h].pc = "uncordoned"
    /\ LET f == handlers[h]
       IN  \/ /\ f.opErr # ""
              /\ handlers' = [handlers EXCEPT ![h] = Respond(f, "", "uncordon node: " \o f.opErr)]
           \/ /\ f.opErr = ""
              /\ \E start \in Labels :
                    handlers' = [handlers EXCEPT ![h] = Respond([f EXCEPT !.start = start], start, "")]
    /\ UNCHANGED <<nodeUnsched, podState, mu, activeEvent, evictionErrors, sweeps, lastOp>>
    /\ UNCHANGED listCall

(***************************************************************************)
(* evictAllPods, run by the goroutine startDrain launches, under a context *)
(* that expires after evictionGoroutineTimeout.                            *)
(***************************************************************************)
\* Where the loop stands once pod i is dealt with.
AfterPod(sw) == IF sw.i >= Len(sw.pods) THEN "done" ELSE "evict"

evictAllPodsList(s) ==
    /\ sweeps[s].pc = "list"
    /\ LET sw == sweeps[s]
           pods == listEvictablePods(sw.node)
       IN  \/ \* the List call fails (always, once the context has expired)
              sweeps' = [sweeps EXCEPT ![s] = [sw EXCEPT !.pc = "done"]]
           \/ /\ ~sw.expired
              /\ sweeps' = [sweeps EXCEPT ![s] =
                     [sw EXCEPT !.pods = pods, !.total = Len(pods), !.i = 1,
                                !.pc = IF pods = <<>> THEN "done" ELSE "evict"]]
    /\ UNCHANGED <<nodeUnsched, podState, mu, activeEvent, evictionErrors, handlers, lastOp>>
    /\ UNCHANGED listCall

\* evictPod: EvictV1, a NotFound answer counting as success.
evictPod(s) ==
    /\ sweeps[s].pc = "evict"
    /\ LET sw == sweeps[s]
           p == sw.pods[sw.i].Name
       IN  \/ \* the eviction is refused or the server cannot be reached; once the
              \* context has expired the call can only end with the context's error
              /\ sweeps' = [sweeps EXCEPT ![s] =
                     [sw EXCEPT !.pc = "lock", !.err = "eviction failed",
                                !.tried = Append(@, [pod |-> p, ok |-> FALSE])]]
              /\ UNCHANGED podState
           \/ \* the eviction is accepted, or the pod is already gone (NotFound)
              /\ ~sw.expired
              /\ podState' = [podState EXCEPT ![p] =
                     IF @ = "Running" THEN "Terminating"
                     ELSE IF @ = "Succeeded" THEN "Gone" ELSE @]
              /\ sweeps' = [sweeps EXCEPT ![s] =
                     [sw EXCEPT !.evicted = sw.evicted + 1, !.i = sw.i + 1, !.pc = AfterPod(sw),
                                !.tried = Append(@, [pod |-> p, ok |-> TRUE])]]
    /\ UNCHANGED <<nodeUnsched, mu, activeEvent, evictionErrors, handlers, lastOp>>
    /\ UNCHANGED listCall

\* EvictV1 is sent and no answer comes.
evictPodHangs(s) ==
    /\ sweeps[s].pc = "evict"
    /\ ~sweeps[s].expired
    /\ sweeps' = [sweeps EXCEPT ![s].pc = "evicting"]
    /\ UNCHANGED <<nodeUnsched, podState, mu, activeEvent, evictionErrors, handlers, lastOp>>
    /\ UNCHANGED listCall

\* d.evictionTimeout has passed since the EvictV1 in flight was sent.
evictionTimeoutElapsed(s) ==
    /\ sweeps[s].pc = "evicting"
    /\ ~sweeps[s].overdue
    /\ sweeps' = [sweeps EXCEPT ![s].overdue = TRUE]
    /\ UNCHANGED <<nodeUnsched, podState, mu, activeEvent, evictionErrors, handlers, lastOp>>
    /\ UNCHANGED listCall

\* The EvictV1 in flight returns the error of its context: the context it
\* was given is ctx, the goroutine's bgCtx, and no other.
evictPodCancelled(s) ==
    /\ sweeps[s].pc = "evicting"
    /\ sweeps[s].expired
    /\ LET sw == sweeps[s]
       IN  sweeps' = [sweeps EXCEPT ![s] =
              [sw EXCEPT !.pc = "lock", !.err = "eviction failed", !.overdue = FALSE,
                         !.tried = Append(@, [pod |-> sw.pods[sw.i].Name, ok |-> FALSE])]]
    /\ UNCHANGED <<nodeUnsched, podState, mu, activeEvent, evictionErrors, handlers, lastOp>>
    /\ UNCHANGED listCall

\* An evictAllPods that leaves its loop at the first failed eviction: the
\* variant C12 must tell from the code.
evictAllPodsRecord_Breaks(s) ==
    /\ sweeps[s].pc = "lock"
    /\ mu = Free
    /\ LET sw == sweeps[s]
           key == PodKey(sw.pods[sw.i])
       IN  /\ evictionErrors' = [k \in (DOMAIN evictionErrors) \cup {key} |->
                                    IF k = key THEN sw.err ELSE evictionErrors[k]]
           /\ sweeps' = [sweeps EXCEPT ![s] =
                  [sw EXCEPT !.failed = sw.failed + 1, !.i = sw.i + 1, !.err = "",
                             !.pc = "done"]]
    /\ UNCHANGED <<nodeUnsched, podState, mu, activeEvent, handlers, lastOp>>
    /\ UNCHANGED listCall

\* d.mu.Lock(); d.evictionErrors[p.Namespace+"/"+p.Name] = err.Error();
\* d.mu.Unlock(); failed++
evictAllPodsRecord(s) ==
    /\ sweeps[s].pc = "lock"
    /\ mu = Free
    /\ LET sw == sweeps[s]
           key == PodKey(sw.pods[sw.i])
       IN  /\ evictionErrors' = [k \in (DOMAIN evictionErrors) \cup {key} |->
                                    IF k = key THEN sw.err ELSE evictionErrors[k]]
           /\ sweeps' = [sweeps EXCEPT ![s] =
                  [sw EXCEPT !.failed = sw.failed + 1, !.i = sw.i + 1, !.err = "",
                             !.pc = AfterPod(sw)]]
    /\ UNCHANGED <<nodeUnsched, podState, mu, activeEvent, handlers, lastOp>>
    /\ UNCHANGED listCall

\* A goroutine that makes the node schedulable again when its pass is over:
\* the variant C27 must tell from the code.
evictionGoroutineExit_Uncordons(s) ==
    /\ sweeps[s].pc = "done"
    /\ sweeps' = [sweeps EXCEPT ![s] = IdleSweep]
    /\ nodeUnsched' = [nodeUnsched EXCEPT ![sweeps[s].node] = FALSE]
    /\ UNCHANGED <<podState, mu, activeEvent, evictionErrors, handlers, lastOp>>
    /\ UNCHANGED listCall

\* evictAllPods has returned: the goroutine logs the counts and ends.
evictionGoroutineExit(s) ==
    /\ sweeps[s].pc = "done"
    /\ sweeps' = [sweeps EXCEPT ![s] = IdleSweep]
    /\ UNCHANGED <<nodeUnsched, podState, mu, activeEvent, evictionErrors, handlers, lastOp>>
    /\ UNCHANGED listCall

\* A goroutine whose context has no deadline (context.Background() as it
\* is): the variant C26 must tell from the code.
evictionGoroutineTimeout_NoDeadline(s) ==
    /\ sweeps[s].pc \in {"list", "evict", "evicting"}
    /\ ~sweeps[s].expired
    /\ sweeps' = [sweeps EXCEPT ![s].expired = FALSE]
    /\ UNCHANGED <<nodeUnsched, podState, mu, activeEvent, evictionErrors, handlers, lastOp>>
    /\ UNCHANGED listCall

\* bgCtx reaches its deadline, evictionGoroutineTimeout after the launch.
evictionGoroutineTimeout(s) ==
    /\ sweeps[s].pc \in {"list", "evict", "evicting"}
    /\ ~sweeps[s].expired
    /\ sweeps' = [sweeps EXCEPT ![s].expired = TRUE]
    /\ UNCHANGED <<nodeUnsched, podState, mu, activeEvent, evictionErrors, handlers, lastOp>>
    /\ UNCHANGED listCall

(***************************************************************************)
(* The cluster besides the driver.                                         *)
(***************************************************************************)
\* A terminating pod has stopped and the kubelet removes it.
podRemoved(p) ==
    /\ Workload(p) /\ podState[p] = "Terminating"
    /\ podState' = [podState EXCEPT ![p] = "Gone"]
    /\ UNCHANGED <<nodeUnsched, mu, activeEvent, evictionErrors, handlers, sweeps, lastOp>>
    /\ UNCHANGED listCall

\* A pod of that name is bound to the node (again).
podBound(p) ==
    /\ Workload(p) /\ podState[p] = "Gone"
    /\ Cardinality({q \in Pods : Workload(q) /\ podState[q] # "Gone"}) < MaxBound
    /\ \A q \in 1..(p - 1) : Workload(q) => podState[q] # "Gone"
    /\ podState' = [podState EXCEPT ![p] = "Running"]
    /\ UNCHANGED <<nodeUnsched, mu, activeEvent, evictionErrors, handlers, sweeps, lastOp>>
    /\ UNCHANGED listCall

\* Another client of the API (an administrator's kubectl cordon / uncordon)
\* writes the node.
otherNodeWriter(n) ==
    /\ nodeUnsched' = [nodeUnsched EXCEPT ![n] = ~@]
    /\ handlers' = MarkStale(handlers, n)
    /\ lastOp' = [lastOp EXCEPT ![n] = NoOp]
    /\ UNCHANGED <<podState, mu, activeEvent, evictionErrors, sweeps>>
    /\ UNCHANGED listCall

\* The driver process is restarted: its goroutines are gone and the new
\* process starts from NewDrainService's state.  The cluster stays as it is.
restart ==
    /\ handlers' = [h \in Handlers |-> IdleHandler]
    /\ sweeps' = [s \in Sweeps |-> IdleSweep]
    /\ mu' = Free
    /\ activeEvent' = ""
    /\ evictionErrors' = NoErrors
    /\ UNCHANGED <<nodeUnsched, podState, lastOp>>
    /\ UNCHANGED listCall

Next ==
    \/ \E h \in Handlers :
          \/ StartLifecycleTransition(h) \/ EndLifecycleTransition(h) \/ deliver(h)
          \/ startDrainSetEvent(h) \/ startDrainResetErrors(h)
          \/ cordonNodeGet(h) \/ cordonNodeUpdate(h)
          \/ startDrainCordoned(h) \/ startDrainReturn(h)
          \/ uncordonNodeGet(h) \/ uncordonNodeUpdate(h) \/ startUncordonReturn(h)
          \/ endDrainList(h) \/ endDrainClear(h)
          \/ endUncordonGet(h) \/ endUncordonReturn(h)
    \/ \E s \in Sweeps :
          \/ evictAllPodsList(s) \/ evictPod(s) \/ evictAllPodsRecord(s) \/ evictionGoroutineExit(s)
          \/ evictionGoroutineTimeout(s)
          \/ evictPodHangs(s) \/ evictionTimeoutElapsed(s) \/ evictPodCancelled(s)
    \/ \E p \in Pods : podRemoved(p) \/ podBound(p)
    \/ \E n \in Nodes : otherNodeWriter(n)
    \/ restart

Spec == Init /\ [][Next]_vars

(***************************************************************************)
(* One sweep on a node with up to two workload pods, each in any state:    *)
(* the driver right after a Drain.Start for event e1 has cordoned the      *)
(* node, launched its goroutine and returned, and from there the goroutine *)
(* and the cluster alone.                                                  *)
(***************************************************************************)
SweepInit ==
    /\ nodeUnsched = [n \in Nodes |-> TRUE]
    /\ podState \in {f \in [Pods -> PodStates] : \A p \in Pods : ~Workload(p) => f[p] = "Running"}
    /\ mu = Free
    /\ activeEvent = "e1"
    /\ evictionErrors = NoErrors
    /\ handlers = [h \in Handlers |-> IdleHandler]
    /\ sweeps = [s \in Sweeps |->
                    IF s = 1 THEN [IdleSweep EXCEPT !.pc = "list", !.node = DefaultNode,
                                                    !.cordoned = TRUE]
                    ELSE IdleSweep]
    /\ lastOp = [n \in Nodes |-> Done("cordon", 1)]
    /\ listCall = NoListCall

SweepNext ==
    \/ \E s \in Sweeps :
          \/ evictAllPodsList(s) \/ evictPod(s) \/ evictAllPodsRecord(s) \/ evictionGoroutineExit(s)
          \/ evictionGoroutineTimeout(s)
          \/ evictPodHangs(s) \/ evictionTimeoutElapsed(s) \/ evictPodCancelled(s)
    \/ \E p \in Pods : podRemoved(p) \/ podBound(p)

SweepSpec == SweepInit /\ [][SweepNext]_vars

(***************************************************************************)
(* A drain from the return of its Drain.Start on, the caller polling       *)
(* Drain.End for the node and calling nothing else: the goroutine, the     *)
(* polls and the kubelet removing the pods evicted.  No pod is bound to    *)
(* the node, no call hangs and the goroutine's deadline is far: a call of  *)
(* the cluster API may fail, but not every time it is made.                *)
(***************************************************************************)
\* The caller's poll: an EndLifecycleTransition with end = "drain-complete"
\* for the node of the drain.
pollDrainEnd(h) ==
    /\ EndLifecycleTransition(h)
    /\ handlers'[h].kind = "DrainEnd" /\ handlers'[h].node = DefaultNode

\* The List call of the poll returns a listing.
endDrainListed(h) == endDrainList(h) /\ ~handlers'[h].listErr
\* The List call of the goroutine returns a listing.
evictAllPodsListed(s) == evictAllPodsList(s) /\ sweeps'[s].pc # "done"
\* The EvictV1 call returns nil.
evictPodAccepted(s) == evictPod(s) /\ sweeps'[s].evicted > sweeps[s].evicted

DrainLiveNext ==
    \/ \E h \in Handlers :
          pollDrainEnd(h) \/ endDrainList(h) \/ endDrainClear(h) \/ deliver(h)
    \/ \E s \in Sweeps :
          \/ evictAllPodsList(s) \/ evictPod(s) \/ evictAllPodsRecord(s)
          \/ evictionGoroutineExit(s)
    \/ \E p \in Pods : podRemoved(p)

\* Every goroutine and every call goes on, the caller goes on polling, a pod
\* that terminates is removed, and a cluster call made again and again
\* succeeds at some time.
DrainLiveFairness ==
    /\ \A h \in Handlers :
          /\ WF_vars(pollDrainEnd(h)) /\ WF_vars(endDrainList(h))
          /\ WF_vars(endDrainClear(h)) /\ WF_vars(deliver(h))
          /\ SF_vars(endDrainListed(h))
    /\ \A s \in Sweeps :
          /\ WF_vars(evictAllPodsList(s)) /\ WF_vars(evictPod(s))
          /\ WF_vars(evictAllPodsRecord(s)) /\ WF_vars(evictionGoroutineExit(s))
          /\ SF_vars(evictAllPodsListed(s)) /\ SF_vars(evictPodAccepted(s))
    /\ \A p \in Pods : WF_vars(podRemoved(p))

DrainLiveSpec == SweepInit /\ [][DrainLiveNext]_vars /\ DrainLiveFairness

(***************************************************************************)
(* An uncordon from its Uncordon.Start on, the caller polling Uncordon.End *)
(* for the node and, at will, calling Uncordon.Start again; no one cordons *)
(* the node, though another client may uncordon it.  A read or a write of  *)
(* the node may fail, but not every time it is made.                       *)
(***************************************************************************)
\* The node cordoned by a drain or schedulable already, its workload pods as
\* a drain may have left them, and the call
\* StartLifecycleTransition{start: "uncordoning"} dispatched to startUncordon.
UncordonInit ==
    /\ nodeUnsched \in [Nodes -> BOOLEAN]
    /\ lastOp = [n \in Nodes |-> IF nodeUnsched[n] THEN Done("cordon", 1) ELSE NoOp]
    /\ podState \in {f \in [Pods -> PodStates] :
                         \A p \in Pods : /\ ~Workload(p) => f[p] = "Running"
                                         /\ (Workload(p) /\ p \notin InitialWorkload) => f[p] = "Gone"}
    /\ mu = Free
    /\ activeEvent = ""
    /\ evictionErrors = NoErrors
    /\ handlers = [h \in Handlers |->
                      IF h = 1 THEN [IdleHandler EXCEPT !.kind = "UncordonStart",
                                                        !.pc = "uncordonGet",
                                                        !.start = Uncordoning,
                                                        !.node = DefaultNode]
                      ELSE IdleHandler]
    /\ sweeps = [s \in Sweeps |-> IdleSweep]
    /\ listCall = NoListCall

\* The caller's poll: an EndLifecycleTransition with end =
\* "maintenance-complete" for the node of the uncordon.
pollUncordonEnd(h) ==
    /\ EndLifecycleTransition(h)
    /\ handlers'[h].kind = "UncordonEnd" /\ handlers'[h].node = DefaultNode

\* The caller issues the start phase again.
uncordonStartAgain(h) ==
    /\ StartLifecycleTransition(h)
    /\ handlers'[h].kind = "UncordonStart" /\ handlers'[h].node = DefaultNode

\* Another client of the API uncordons the node.
otherNodeUncordon(n) == otherNodeWriter(n) /\ ~nodeUnsched'[n]

\* Nodes().Get returns the node, in endUncordon and in uncordonNode.
endUncordonRead(h) == endUncordonGet(h) /\ handlers'[h].saw # "error"
uncordonNodeRead(h) == uncordonNodeGet(h) /\ handlers'[h].opErr = ""
\* Nodes().Update returns nil.
uncordonNodeWritten(h) == uncordonNodeUpdate(h) /\ handlers'[h].opErr = ""

UncordonLiveNext ==
    \/ \E h \in Handlers :
          \/ uncordonNodeGet(h) \/ uncordonNodeUpdate(h) \/ startUncordonReturn(h)
          \/ deliver(h)
          \/ pollUncordonEnd(h) \/ endUncordonGet(h) \/ endUncordonReturn(h)
          \/ uncordonStartAgain(h)
    \/ \E n \in Nodes : otherNodeUncordon(n)
    \/ \E p \in Pods : podRemoved(p)

\* Every call goes on, the caller goes on polling, and a read or write of
\* the node made again and again succeeds at some time.
UncordonLiveFairness ==
    \A h \in Handlers :
        /\ WF_vars(uncordonNodeGet(h)) /\ WF_vars(uncordonNodeUpdate(h))
        /\ WF_vars(startUncordonReturn(h)) /\ WF_vars(deliver(h))
        /\ SF_vars(pollUncordonEnd(h)) /\ WF_vars(endUncordonGet(h))
        /\ WF_vars(endUncordonReturn(h))
        /\ SF_vars(endUncordonRead(h)) /\ SF_vars(uncordonNodeRead(h))
        /\ SF_vars(uncordonNodeWritten(h))

UncordonLiveSpec == UncordonInit /\ [][UncordonLiveNext]_vars /\ UncordonLiveFairness

(***************************************************************************)
(* The goroutines of the drains of a node, left to themselves: from the    *)
(* return of a first Drain.Start on, the caller may poll Drain.End and     *)
(* start the drain again, or do neither; pods come and go, and the node    *)
(* stays cordoned.                                                         *)
(* Only the goroutines, a call that holds the lock and the clock are held  *)
(* to go on.                                                               *)
(***************************************************************************)
\* The driver as a first Drain.Start has left it, one workload pod on the
\* node or none.
TerminationInit ==
    /\ SweepInit
    /\ \A p \in Pods : (Workload(p) /\ p \notin InitialWorkload) => podState[p] = "Gone"

\* A later StartLifecycleTransition with start = "drain-started" for the node.
drainStartAgain(h) ==
    /\ StartLifecycleTransition(h)
    /\ handlers'[h].kind = "DrainStart" /\ handlers'[h].node = DefaultNode

TerminationNext ==
    \/ \E h \in Handlers :
          \/ drainStartAgain(h) \/ startDrainSetEvent(h) \/ startDrainResetErrors(h)
          \/ cordonNodeGet(h)
          \/ startDrainCordoned(h) \/ startDrainReturn(h)
          \/ pollDrainEnd(h) \/ endDrainList(h) \/ endDrainClear(h)
          \/ deliver(h)
    \/ \E s \in Sweeps :
          \/ evictAllPodsList(s) \/ evictPod(s) \/ evictAllPodsRecord(s) \/ evictionGoroutineExit(s)
          \/ evictionGoroutineTimeout(s)
          \/ evictPodHangs(s) \/ evictionTimeoutElapsed(s) \/ evictPodCancelled(s)
    \/ \E p \in Pods : podRemoved(p) \/ podBound(p)

\* A goroutine that can take a step takes one, a startDrain that holds the
\* lock releases it, and the deadline of a goroutine's context comes.  A
\* goroutine that waits in d.mu.Lock() gets the lock though others take it
\* again and again: a sync.Mutex hands the lock to a waiter that has waited
\* long.
TerminationFairness ==
    /\ \A s \in Sweeps :
          /\ WF_vars(evictAllPodsList(s)) /\ WF_vars(evictPod(s))
          /\ SF_vars(evictAllPodsRecord(s)) /\ WF_vars(evictionGoroutineExit(s))
          /\ WF_vars(evictionGoroutineTimeout(s)) /\ WF_vars(evictPodCancelled(s))
    /\ \A h \in Handlers : WF_vars(startDrainResetErrors(h))

TerminationSpec == TerminationInit /\ [][TerminationNext]_vars /\ TerminationFairness

(***************************************************************************)
(* listEvictablePods on its own, on the listing of any pods of a node: its *)
(* loop over podList.Items, one pod a step.                                *)
(***************************************************************************)
\* What the filter reads of a pod: the mirror annotation, the kinds of its
\* owner references, the deletion timestamp and the phase.
OwnerKinds == {<<>>, <<"ReplicaSet">>, <<"DaemonSet">>, <<"ReplicaSet", "DaemonSet">>}
Phases == {"Pending", "Running", "Succeeded", "Failed"}
PodAttrs ==
    [Mirror : BOOLEAN, OwnerReferences : OwnerKinds,
     DeletionTimestamp : BOOLEAN, Phase : Phases]

\* The k-th pod of a listing: names within a namespace are unique.
ListedPod(k, a) ==
    [Name |-> k, Namespace |-> "default", NodeName |-> DefaultNode,
     Mirror |-> a.Mirror, OwnerReferences |-> a.OwnerReferences,
     DeletionTimestamp |-> a.DeletionTimestamp, Phase |-> a.Phase]

\* podList, err := Pods("").List(...) has returned a listing; var evictable []podInfo
FilterInit ==
    /\ DriverInit
    /\ podState = [p \in Pods |->
                      IF Workload(p) /\ p \notin InitialWorkload THEN "Gone" ELSE "Running"]
    /\ \E n \in 0..MaxItems : \E attrs \in [1..n -> PodAttrs] :
          listCall = [Items |-> [k \in 1..n |-> ListedPod(k, attrs[k])],
                      i |-> 1, evictable |-> <<>>]

\* One turn of: for _, pod := range podList.Items { ... }
listEvictablePodsLoop ==
    /\ listCall.i >= 1 /\ listCall.i <= Len(listCall.Items)
    /\ LET pod == listCall.Items[listCall.i]
       IN  listCall' = [listCall EXCEPT
                           !.i = @ + 1,
                           !.evictable = IF isEvictable(pod)
                                         THEN Append(@, podInfo(pod)) ELSE @]
    /\ UNCHANGED <<nodeUnsched, podState, mu, activeEvent, evictionErrors, handlers,
                   sweeps, lastOp>>

\* return evictable, nil
listEvictablePodsReturn ==
    /\ listCall.i = Len(listCall.Items) + 1
    /\ listCall' = [listCall EXCEPT !.i = 0]
    /\ UNCHANGED <<nodeUnsched, podState, mu, activeEvent, evictionErrors, handlers,
                   sweeps, lastOp>>

FilterNext == listEvictablePodsLoop \/ listEvictablePodsReturn

FilterSpec == FilterInit /\ [][FilterNext]_vars

(***************************************************************************)
(* The claims.                                                             *)
(***************************************************************************)
Frame(h) == handlers[h]
\* The call of slot h has returned: its frame holds its response.
Returned(h, kind) == handlers[h].kind = kind /\ handlers[h].pc = "responded"
\* The listing the call made succeeded and was empty.
ListedNone(f) == ~f.listErr /\ f.listed = {}

\* C1: Drain.End returns "drain-complete" if and only if its listing of the
\* eligible pods of the requested node succeeded and was empty.
C1_DrainEndCompleteIffListingEmpty ==
    \A h \in Handlers :
        Returned(h, "DrainEnd") =>
            ((Frame(h).cond = DrainComplete) <=> ListedNone(Frame(h)))

\* C2: a Drain.End whose listing holds an eligible pod answers "drain-started"
\* with an empty error message, whatever else the request carries.
C2_DrainEndReportsDrainStarted ==
    \A h \in Handlers :
        (Returned(h, "DrainEnd") /\ Frame(h).listed # {}) =>
            (Frame(h).cond = DrainStarted /\ Frame(h).err = "")

\* C3: an Uncordon.End that read the node unschedulable re-issues uncordon and,
\* when that succeeds, answers "uncordoning" with no error; one that read it
\* schedulable answers "maintenance-complete" and writes nothing; and
\* "maintenance-complete" is answered only when its own read saw the node
\* schedulable.
C3_UncordonEndRetries ==
    \A h \in Handlers :
        Returned(h, "UncordonEnd") =>
            LET f == Frame(h)
            IN  /\ f.saw = "unschedulable" => f.calls >= 2
                /\ (f.saw = "unschedulable" /\ f.opErr = "") =>
                       (f.cond = Uncordoning /\ f.err = "")
                /\ f.saw = "schedulable" =>
                       (f.cond = MaintenanceComplete /\ f.err = "" /\ f.writes = 0)
                /\ f.cond = MaintenanceComplete => f.saw = "schedulable"

\* C4: a Drain.Start whose cordon failed answers with an error message and no
\* condition label and has launched no sweep; every sweep there is was
\* launched by a call whose cordon had succeeded, so no pod is evicted on
\* behalf of a failed cordon.
C4_CordonFailureLaunchesNothing ==
    /\ \A h \in Handlers :
          (Returned(h, "DrainStart") /\ Frame(h).opErr # "") =>
              /\ Frame(h).err # "" /\ Frame(h).cond = "" /\ ~Frame(h).fail
              /\ Frame(h).sweep = 0
    /\ \A s \in Sweeps : sweeps[s].pc # "idle" => sweeps[s].cordoned

C4_Witness ==
    \E h \in Handlers :
        /\ Returned(h, "DrainStart") /\ Frame(h).opErr # ""
        /\ \E s \in Sweeps : sweeps[s].pc \in {"list", "evict"}

\* C5: once a Drain.Start has cordoned the node and launched its sweep, its
\* return can be taken at once, wherever the sweep stands, and its response
\* is "drain-started" with no error whatever the sweep does.
C5_StartNeverWaitsOnEviction ==
    /\ \A h \in Handlers :
          (Frame(h).kind = "DrainStart" /\ Frame(h).pc = "return") =>
              ENABLED startDrainReturn(h)
    /\ \A h \in Handlers :
          (Returned(h, "DrainStart") /\ Frame(h).opErr = "") =>
              (Frame(h).cond = DrainStarted /\ Frame(h).err = "" /\ ~Frame(h).fail)

\* The call has answered "drain-started" and its sweep has not listed yet.
C5_Witness ==
    \E h \in Handlers :
        /\ Returned(h, "DrainStart") /\ Frame(h).cond = DrainStarted
        /\ Frame(h).sweep # 0
        /\ sweeps[Frame(h).sweep].pc = "list"

HandlerKinds == {"DrainStart", "UncordonStart", "DrainEnd", "UncordonEnd"}
RejectedKinds == {"StartRejected", "EndRejected"}

\* What a rejected call has done: it failed at call level with no payload
\* and made no cluster call; and only the supported labels reach a handler.
OnlySupportedLabelsDispatched ==
    \A h \in Handlers :
        LET f == Frame(h)
        IN  /\ f.kind = "DrainStart" => f.start = DrainStarted
            /\ f.kind = "UncordonStart" => f.start = Uncordoning
            /\ f.kind = "DrainEnd" => f.end = DrainComplete
            /\ f.kind = "UncordonEnd" => f.end = MaintenanceComplete
            /\ f.kind = "StartRejected" => f.start \notin {DrainStarted, Uncordoning}
            /\ f.kind = "EndRejected" => f.end \notin {DrainComplete, MaintenanceComplete}
            /\ f.kind \in RejectedKinds =>
                  /\ f.pc = "responded" /\ f.fail
                  /\ f.cond = "" /\ f.err = ""
                  /\ f.calls = 0 /\ f.writes = 0 /\ f.sweep = 0

\* The step that rejects a call changes nothing but the call's own frame.
RejectionTouchesNothing ==
    (\E h \in Handlers : handlers[h].kind = "idle" /\ handlers'[h].kind \in RejectedKinds) =>
        UNCHANGED <<nodeUnsched, podState, mu, activeEvent, evictionErrors, sweeps>>

\* C6: a StartTransition whose start label is neither "drain-started" nor
\* "uncordoning", and an EndTransition whose end label is neither
\* "drain-complete" nor "maintenance-complete", fails at call level with no
\* payload; it makes no cluster call, launches no sweep and leaves the
\* cluster and the progress state as they were.
C6_UnsupportedLabelRejected ==
    []OnlySupportedLabelsDispatched /\ [][RejectionTouchesNothing]_vars

\* A Start was rejected while a drain was in progress.
C6_Witness ==
    \E h \in Handlers :
        /\ Returned(h, "StartRejected") /\ Frame(h).start = DrainComplete
        /\ activeEvent # ""

\* The call met a failed cordon, uncordon, node read or pod listing.
MetFailure(f) == f.opErr # "" \/ f.listErr \/ f.saw = "error"

\* C7: a handler that meets a failed cordon, uncordon, node read or pod
\* listing answers with a payload (never a call-level failure) whose error
\* message is non-empty and whose condition label is empty; and no response
\* carries both an error message and a condition label.
C7_FailuresTravelInPayload ==
    \A h \in Handlers :
        LET f == Frame(h)
        IN  /\ f.err # "" => f.cond = ""
            /\ (f.pc = "responded" /\ f.kind \in HandlerKinds) =>
                  /\ ~f.fail
                  /\ MetFailure(f) => (f.err # "" /\ f.cond = "")

C7_Witness ==
    \E h \in Handlers :
        Returned(h, "UncordonStart") /\ Frame(h).opErr # "" /\ Frame(h).err # ""

\* The response of an End call as a function of its request and of what its
\* own cluster calls returned.
EndCond(f) ==
    IF f.kind = "DrainEnd"
    THEN IF f.listErr THEN "" ELSE IF f.listed = {} THEN f.end ELSE f.start
    ELSE IF f.saw = "schedulable" THEN f.end
         ELSE IF f.saw = "unschedulable" /\ f.opErr = "" THEN f.start ELSE ""
EndErr(f) ==
    IF f.kind = "DrainEnd"
    THEN IF f.listErr THEN "list pods: list failed" ELSE ""
    ELSE IF f.saw = "error" THEN "get node: get node failed"
         ELSE IF f.saw = "unschedulable" /\ f.opErr # "" THEN "uncordon node: " \o f.opErr
         ELSE ""
\* The cluster calls an End call makes, likewise.
EndCalls(f) ==
    IF f.kind = "DrainEnd" THEN 1
    ELSE IF f.saw # "unschedulable" THEN 1
         ELSE IF f.opErr = "get node failed" \/ (f.opErr = "" /\ f.writes = 0) THEN 2 ELSE 3

\* C8: the response of an End call and the cluster calls it makes are a
\* function of its request and of the cluster state its calls observe: they
\* are the same whether d.activeEvent and d.evictionErrors are what the
\* preceding calls left or were emptied by a restart.
C8_EndIndependentOfProgressState ==
    \A h \in Handlers :
        (Frame(h).pc = "responded" /\ Frame(h).kind \in {"DrainEnd", "UncordonEnd"}) =>
            LET f == Frame(h)
            IN  /\ f.cond = EndCond(f) /\ f.err = EndErr(f) /\ ~f.fail
                /\ f.calls = EndCalls(f)
                /\ f.kind = "DrainEnd" => f.writes = 0
                /\ f.sweep = 0

\* A Drain.End answered "pods remain" on a cordoned node with the progress
\* state empty and no sweep alive, as after a restart in mid-drain.
C8_Witness ==
    \E h \in Handlers :
        /\ Returned(h, "DrainEnd") /\ Frame(h).listed # {}
        /\ Frame(h).cond = Frame(h).start
        /\ nodeUnsched[Frame(h).node]
        /\ activeEvent = "" /\ evictionErrors = NoErrors
        /\ \A s \in Sweeps : sweeps[s].pc = "idle"

\* The pods a drain of node n is to remove: neither mirror pods nor
\* DaemonSet pods, and not finished.
DrainTarget(p, n) ==
    /\ PodNode(p) = n /\ podState[p] # "Gone"
    /\ ~PodMirror(p) /\ ~IsDaemonSet(PodRecord(p))
    /\ podState[p] # "Succeeded"

\* C9: when Drain.End reports the drain complete (its listing was empty and
\* it answers the end condition), no drain-target pod is left on the node,
\* terminating ones included.
C9_CompleteMeansPodsGone ==
    \A h \in Handlers :
        (Returned(h, "DrainEnd") /\ ListedNone(Frame(h)) /\ Frame(h).cond = DrainComplete) =>
            \A p \in Pods : ~DrainTarget(p, Frame(h).node)

\* C10: as long as no other writer has written the node since a cordon
\* completed, the node is unschedulable; and a cordon that follows a cordon
\* with no other writer in between writes nothing, so the two make at most
\* one write.  Likewise for uncordon and schedulable.
C10_CordonIdempotent ==
    /\ \A n \in Nodes :
          /\ lastOp[n].op = "cordon" => nodeUnsched[n]
          /\ lastOp[n].op = "uncordon" => ~nodeUnsched[n]
    /\ \A h \in Handlers :
          LET f == Frame(h)
          IN  /\ (f.pc = "cordoned" /\ f.opErr = "" /\ f.prior.op = "cordon") =>
                    (f.writes = 0 /\ f.prior.writes + f.writes <= 1)
              /\ (f.pc = "uncordoned" /\ f.opErr = "" /\ f.prior.op = "uncordon") =>
                    (f.writes = 0 /\ f.prior.writes + f.writes <= 1)

\* A second cordon has completed right after a first that wrote.
C10_Witness ==
    \E h \in Handlers :
        /\ Frame(h).pc = "cordoned" /\ Frame(h).opErr = ""
        /\ Frame(h).prior = Done("cordon", 1)

\* The listing call has returned.
ListReturned == listCall.i = 0 /\ listCall.Items # <<>>
\* How often the pod is in the list returned.
TimesListed(pod) ==
    Cardinality({j \in 1..Len(listCall.evictable) : listCall.evictable[j] = podInfo(pod)})
\* The four grounds of exclusion.
Excluded(pod) ==
    \/ pod.Mirror
    \/ \E j \in 1..Len(pod.OwnerReferences) : pod.OwnerReferences[j] = "DaemonSet"
    \/ pod.DeletionTimestamp
    \/ pod.Phase = "Succeeded" \/ pod.Phase = "Failed"

\* C11: of the pods of a listing, the list returned holds exactly once each
\* pod that is no mirror pod, has no DaemonSet owner, has no deletion timestamp
\* and is in neither phase Succeeded nor Failed, and holds no other pod; and
\* the filter the handlers and sweeps apply returns the same list.
C11_FilterExcludesExactlyTheFour ==
    ListReturned =>
        /\ \A k \in 1..Len(listCall.Items) :
              LET pod == listCall.Items[k]
              IN  /\ (~isEvictable(pod)) <=> Excluded(pod)
                  /\ TimesListed(pod) = IF Excluded(pod) THEN 0 ELSE 1
        /\ Len(listCall.evictable) <= Len(listCall.Items)
        /\ listCall.evictable = FilterEvictable(listCall.Items)

\* A listing of two pods, one terminating and one eligible, has been filtered.
C11_Witness ==
    /\ ListReturned /\ Len(listCall.Items) = 2
    /\ listCall.Items[1].DeletionTimestamp /\ ~listCall.Items[1].Mirror
    /\ listCall.evictable = <<podInfo(listCall.Items[2])>>

\* The failed ones among the first k attempts of a sweep.
FailedAttempts(sw, k) == {j \in 1..k : ~sw.tried[j].ok}

\* C12: a sweep makes its eviction attempts in the order of its listing, one
\* for each pod, going on after a failed one; when its loop is over it has
\* made exactly one attempt for each of the N pods listed, every failed
\* attempt stands in the error map under the pod's namespace/name, total = N,
\* failed is the number of failed attempts and evicted + failed = total.
C12_SweepAttemptsEveryPodOnce ==
    \A s \in Sweeps :
        LET sw == sweeps[s]
            N == Len(sw.pods)
            made == Len(sw.tried)
        IN  /\ made <= N
            /\ \A k \in 1..made : sw.tried[k].pod = sw.pods[k].Name
            /\ sw.pc \in {"evict", "evicting"} =>
                  (made = sw.i - 1 /\ sw.evicted + sw.failed = made)
            /\ sw.pc = "lock" => (made = sw.i /\ sw.evicted + sw.failed = made - 1)
            /\ sw.pc = "done" =>
                  /\ made = N /\ sw.total = N
                  /\ sw.failed = Cardinality(FailedAttempts(sw, N))
                  /\ sw.evicted + sw.failed = sw.total
                  /\ \A k \in FailedAttempts(sw, N) :
                        PodKey(sw.pods[k]) \in DOMAIN evictionErrors

\* A sweep of two pods is over: its first attempt failed, its second succeeded.
C12_Witness ==
    \E s \in Sweeps :
        /\ sweeps[s].pc = "done" /\ Len(sweeps[s].pods) = 2
        /\ ~sweeps[s].tried[1].ok /\ sweeps[s].tried[2].ok
        /\ sweeps[s].evicted = 1 /\ sweeps[s].failed = 1

\* C15: an eviction call that has not returned when the per-eviction timeout
\* has passed is abandoned: its return is due whether or not the sweep's own
\* deadline has come, so the sweep goes on to the rest of its list.
C15_EvictionBoundedByOwnTimeout ==
    \A s \in Sweeps :
        (sweeps[s].pc = "evicting" /\ sweeps[s].overdue) => ENABLED evictPodCancelled(s)

\* The call of slot h takes the step that leaves pc from, and stays the call it is.
Leaves(h, from) ==
    /\ handlers[h].pc = from /\ handlers'[h].pc # from
    /\ handlers'[h].kind = handlers[h].kind

\* Mirror and DaemonSet pods stay as they are, no sweep lists or tries one,
\* no Drain.End counts one; a Drain.Start that cordoned answers
\* "drain-started" and a Drain.End whose listing was empty "drain-complete".
OnlyWorkloadPodsCount ==
    /\ \A p \in Pods : ~Workload(p) => podState[p] = "Running"
    /\ \A s \in Sweeps :
          /\ \A k \in 1..Len(sweeps[s].pods) : Workload(sweeps[s].pods[k].Name)
          /\ \A k \in 1..Len(sweeps[s].tried) : Workload(sweeps[s].tried[k].pod)
    /\ \A h \in Handlers :
          LET f == Frame(h)
          IN  /\ \A p \in f.listed : Workload(p)
              /\ (Returned(h, "DrainStart") /\ f.opErr = "") =>
                    (f.cond = DrainStarted /\ f.err = "" /\ f.calls >= 1)
              /\ (Returned(h, "DrainEnd") /\ ListedNone(f)) =>
                    (f.cond = DrainComplete /\ f.err = "")

\* The listing of a Drain.End made when the workload pods are gone is empty:
\* the call goes on to complete the drain.
GoneMeansNothingListed ==
    \A h \in Handlers :
        (/\ handlers[h].kind = "DrainEnd" /\ Leaves(h, "list")
         /\ ~handlers'[h].listErr
         /\ \A p \in Pods : Workload(p) => podState[p] = "Gone") =>
            handlers'[h].pc = "lock"

\* C13: on a node with a mirror pod, a DaemonSet pod and an ordinary pod, a
\* sweep issues evictions for the ordinary pod only and the other two are
\* never evicted; Drain.Start, having cordoned, answers "drain-started"; and
\* a Drain.End that lists once the ordinary pod is gone lists nothing and
\* answers "drain-complete", the mirror and DaemonSet pods still being there.
C13_MirrorAndDaemonSetNeverCount ==
    []OnlyWorkloadPodsCount /\ [][GoneMeansNothingListed]_vars

\* The drain of the node is complete: the ordinary pod was evicted and is gone.
C13_Witness ==
    \E h \in Handlers :
        /\ Returned(h, "DrainEnd") /\ ListedNone(Frame(h)) /\ Frame(h).cond = DrainComplete
        /\ podState[1] = "Gone" /\ podState[2] = "Running" /\ podState[3] = "Running"
        /\ Frame(h).node \in Nodes /\ nodeUnsched[Frame(h).node]
        /\ \E s \in Sweeps : sweeps[s].pc = "done" /\ sweeps[s].tried = <<[pod |-> 1, ok |-> TRUE]>>

\* What the answers of the uncordon calls are.
UncordonAnswers ==
    /\ \A n \in Nodes : lastOp[n].op = "uncordon" => ~nodeUnsched[n]
    /\ \A h \in Handlers :
          LET f == Frame(h)
          IN  /\ (Returned(h, "UncordonStart") /\ f.opErr = "") =>
                    (f.cond = Uncordoning /\ f.err = "")
              /\ (Returned(h, "UncordonEnd") /\ f.saw = "schedulable") =>
                    (f.cond = MaintenanceComplete /\ f.err = "" /\ f.writes = 0 /\ f.calls = 1)

\* An uncordonNode that reads the node schedulable returns without a write;
\* and the read of an Uncordon.End made while the last uncordon stands (no
\* node write since) ends the call with "maintenance-complete" and no write.
UncordonOfSchedulableNode ==
    \A h \in Handlers :
        LET n == handlers[h].node
        IN  /\ (/\ Leaves(h, "uncordonGet") /\ ~nodeUnsched[n]
                /\ handlers'[h].opErr = "") =>
                   /\ handlers'[h].pc = "uncordoned"
                   /\ handlers'[h].writes = handlers[h].writes
                   /\ nodeUnsched' = nodeUnsched
            /\ (/\ handlers[h].kind = "UncordonEnd" /\ Leaves(h, "get")
                /\ n \in Nodes /\ lastOp[n].op = "uncordon" /\ handlers'[h].saw # "error") =>
                   /\ handlers'[h].pc = "responded"
                   /\ handlers'[h].cond = MaintenanceComplete
                   /\ handlers'[h].writes = 0
                   /\ nodeUnsched' = nodeUnsched

\* C14: an Uncordon.Start on a schedulable node writes nothing and answers
\* "uncordoning"; the Uncordon.End after it, no cordon in between, answers
\* "maintenance-complete" at once and writes nothing either.
C14_UncordonOfSchedulableIsNoWrite ==
    []UncordonAnswers /\ [][UncordonOfSchedulableNode]_vars

\* An Uncordon.End has answered "maintenance-complete" after an uncordon that
\* found the node schedulable, with no node write since.
C14_Witness ==
    \E h \in Handlers :
        /\ Returned(h, "UncordonEnd") /\ Frame(h).cond = MaintenanceComplete
        /\ Frame(h).writes = 0 /\ Frame(h).calls = 1
        /\ lastOp[Frame(h).node] = Done("uncordon", 0)

\* The goroutines a step launches, and the Drain.Start calls that in that
\* step get past their cordon check, the cordon having succeeded.
Launched == {s \in Sweeps : sweeps[s].pc = "idle" /\ sweeps'[s].pc # "idle"}
PassCordonCheck ==
    {h \in Handlers : /\ handlers[h].kind = "DrainStart" /\ Leaves(h, "cordoned")
                      /\ handlers[h].opErr = ""}

\* Which calls hold a goroutine of their own.
SweepOnlyOfStartedDrain ==
    \A h \in Handlers :
        LET f == Frame(h)
        IN  /\ f.kind # "DrainStart" => f.sweep = 0
            /\ (f.kind = "DrainStart" /\ f.pc = "return") => (f.sweep # 0 /\ f.opErr = "")
            /\ Returned(h, "DrainStart") =>
                  /\ f.cond = DrainStarted <=> f.sweep # 0
                  /\ f.opErr # "" <=> f.sweep = 0

\* A step launches as many goroutines as Drain.Start calls get past their
\* cordon check in it: one for each, its own, and the call goes on to return.
OneSweepPerStartedDrain ==
    /\ Cardinality(Launched) = Cardinality(PassCordonCheck)
    /\ \A h \in PassCordonCheck :
          /\ handlers'[h].sweep \in Launched
          /\ handlers'[h].pc = "return"
          /\ \A x \in PassCordonCheck : handlers'[x].sweep = handlers'[h].sweep => x = h

\* C16: one sweep is launched for each Drain.Start that answers
\* "drain-started" and none otherwise: a goroutine starts only in the step in
\* which a Drain.Start finds its cordon succeeded, one a call, and neither a
\* Drain.Start whose cordon failed nor a Drain.End, Uncordon.Start or
\* Uncordon.End has one.
C16_OneSweepPerSuccessfulStart ==
    []SweepOnlyOfStartedDrain /\ [][OneSweepPerStartedDrain]_vars

\* A Drain.Start has answered "drain-started" and its goroutine is evicting,
\* while the goroutine of an earlier one is still alive.
C16_Witness ==
    \E h \in Handlers :
        /\ Returned(h, "DrainStart") /\ Frame(h).cond = DrainStarted
        /\ Frame(h).sweep # 0
        /\ sweeps[Frame(h).sweep].pc = "evict"
        /\ \A s \in Sweeps : sweeps[s].pc # "idle"

\* C17: a Drain.Start whose cordon failed has left the progress state as it
\* found it: the active event is the one it found, and an error map that
\* held entries has not been emptied.
C17_FailedCordonLeavesProgressState ==
    \A h \in Handlers :
        (Returned(h, "DrainStart") /\ Frame(h).opErr # "") =>
            /\ activeEvent = Frame(h).eventBefore
            /\ Frame(h).errorsBefore => evictionErrors # NoErrors

\* A goroutine that a later Drain.Start has superseded writes no entry into
\* the error map.
SupersededSweepWritesNothing ==
    \A s \in Sweeps :
        (/\ sweeps[s].superseded
         /\ sweeps[s].pc = "lock" /\ sweeps'[s].pc \notin {"lock", "idle"}) =>
            evictionErrors' = evictionErrors

\* C18: once a later Drain.Start has reset the progress state, the error map
\* gets no entry from a sweep launched before; and the active event, when
\* some Drain.Start has recorded one, is the event of the latest that did.
C18_NoEntryFromSupersededSweep ==
    [][SupersededSweepWritesNothing]_vars

\* The step in which a Drain.End, its listing having been empty, returns
\* the end condition leaves the progress state cleared.
CompletionClearsProgressState ==
    \A h \in Handlers :
        (/\ handlers[h].kind = "DrainEnd" /\ Leaves(h, "lock")
         /\ handlers'[h].pc = "responded" /\ handlers'[h].cond = DrainComplete) =>
            (activeEvent' = "" /\ evictionErrors' = NoErrors)

\* C19: when a Drain.End returns "drain-complete" the active event id is
\* empty and the error map is empty.
C19_CompletionClearsProgressState ==
    [][CompletionClearsProgressState]_vars

\* The lock is held by a startDrain between its two writes and by no one
\* else; while it is held no handler and no sweep can take a step that reads
\* or writes the active event or the error map.
LockGuardsProgressState ==
    /\ mu # Free =>
          /\ mu.who = "handler" /\ mu.id \in Handlers
          /\ handlers[mu.id].kind = "DrainStart" /\ handlers[mu.id].pc = "resetErrors"
    /\ \A h \in Handlers :
          handlers[h].pc = "resetErrors" =>
              /\ mu = HeldByHandler(h)
              /\ \A s \in Sweeps : ~ENABLED evictAllPodsRecord(s)
              /\ \A x \in Handlers : ~ENABLED endDrainClear(x) /\ ~ENABLED startDrainSetEvent(x)

\* The driver process is replaced: every frame is gone.
ProcessRestarts ==
    /\ \A h \in Handlers : handlers'[h] = IdleHandler
    /\ \A s \in Sweeps : sweeps'[s] = IdleSweep

\* A step that changes the active event or the error map is one critical
\* section, or the step of the lock's holder; and a step that makes a
\* cluster API call is not made by the holder of the lock.
ProgressStateChangedUnderLock ==
    /\ (activeEvent' # activeEvent \/ evictionErrors' # evictionErrors) =>
          \/ mu = Free
          \/ mu.who = "handler" /\ handlers'[mu.id] # handlers[mu.id] /\ mu' = Free
          \/ ProcessRestarts
    /\ \A h \in Handlers :
          handlers'[h].calls > handlers[h].calls =>
              (mu # HeldByHandler(h) /\ mu' # HeldByHandler(h))

DrainConfirmed ==
    \E h \in Handlers :
        /\ Returned(h, "DrainEnd") /\ Frame(h).node = DefaultNode
        /\ ListedNone(Frame(h)) /\ Frame(h).cond = DrainComplete

\* C21: after a Drain.Start that answered "drain-started", the caller polling
\* Drain.End and starting no other drain, some Drain.End answers
\* "drain-complete", given that no pod is bound to the node, that evicted
\* pods leave and that no cluster call fails every time it is made.
C21_DrainReachesCompletion ==
    <>DrainConfirmed

\* Goroutine s is still going to attempt pod p: it has not listed yet, or p
\* is in its list past the attempts it has made.
StillToAttempt(s, p) ==
    LET sw == sweeps[s]
    IN  \/ sw.pc = "list"
        \/ /\ sw.pc \in {"evict", "evicting", "lock"}
           /\ \E k \in (Len(sw.tried) + 1)..Len(sw.pods) : sw.pods[k].Name = p

\* A Drain.End that finds eligible pods left, while a drain recorded by this
\* process is active, finds each of them in the hands of a goroutine.
RemainingPodsAreSweptStill ==
    \A h \in Handlers :
        (/\ handlers[h].kind = "DrainEnd" /\ Leaves(h, "list")
         /\ handlers'[h].listed # {}
         /\ activeEvent # "") =>
            \A p \in handlers'[h].listed : \E s \in Sweeps : StillToAttempt(s, p)

\* C22: whenever Drain.End returns the start condition because eligible pods
\* remain, a sweep launched by a Drain.Start of this driver is in progress
\* and each remaining eligible pod is still going to be attempted by it.
C22_RemainingPodsHaveRunningSweep ==
    [][RemainingPodsAreSweptStill]_vars

\* A poll has read the node schedulable and answered "maintenance-complete".
MaintenanceConfirmed ==
    \E h \in Handlers :
        /\ Returned(h, "UncordonEnd") /\ Frame(h).saw = "schedulable"
        /\ Frame(h).cond = MaintenanceComplete /\ Frame(h).err = ""

\* A poll that reads the node after an uncordon has succeeded, the node not
\* written since, answers "maintenance-complete" in that step; one that reads
\* it unschedulable goes on to uncordon it again.
PollAfterUncordonCompletes ==
    \A h \in Handlers :
        (handlers[h].kind = "UncordonEnd" /\ Leaves(h, "get") /\ handlers'[h].saw # "error") =>
            LET n == handlers[h].node
            IN  /\ lastOp[n].op = "uncordon" =>
                      /\ handlers'[h].pc = "responded"
                      /\ handlers'[h].cond = MaintenanceComplete /\ handlers'[h].err = ""
                /\ nodeUnsched[n] => handlers'[h].pc = "uncordonGet"

\* C23: after an Uncordon.Start, the caller polling Uncordon.End, the reads
\* and writes of the node succeeding at some time and no one cordoning the
\* node, some Uncordon.End answers "maintenance-complete"; and the poll that
\* reads the node after an Uncordon.End has uncordoned it answers
\* "maintenance-complete".
C23_UncordonReachesCompletion ==
    <>MaintenanceConfirmed /\ [][PollAfterUncordonCompletes]_vars

\* "maintenance-complete" is answered for a node that an uncordon had to
\* write: the poll that read it made that one call.
C23_Witness ==
    \E h \in Handlers :
        /\ MaintenanceConfirmed /\ Returned(h, "UncordonEnd")
        /\ Frame(h).calls = 1 /\ Frame(h).writes = 0
        /\ lastOp[Frame(h).node] = Done("uncordon", 1)

\* A Drain.Start call has no goroutine as long as its cordonNode has not
\* returned, and none if it returned an error.
NoSweepBeforeCordon ==
    \A h \in Handlers :
        LET f == Frame(h)
        IN  /\ (f.kind = "DrainStart"
                  /\ f.pc \in {"lock", "resetErrors", "cordonGet", "cordonUpdate", "cordoned"}) =>
                  f.sweep = 0
            /\ (f.kind = "DrainStart" /\ f.opErr # "") => f.sweep = 0

\* A goroutine starts in the step of a Drain.Start whose cordonNode has
\* returned nil, for the node that call cordoned, with nothing listed and
\* nothing tried; and every listing and every eviction is made by a
\* goroutine started so.
SweepFollowsCordon ==
    /\ \A s \in Launched :
          \E h \in Handlers :
              /\ handlers[h].kind = "DrainStart" /\ handlers[h].pc = "cordoned"
              /\ handlers[h].opErr = "" /\ handlers[h].calls >= 1
              /\ handlers'[h].sweep = s
              /\ sweeps'[s].node = handlers[h].node
              /\ sweeps'[s].pc = "list" /\ sweeps'[s].pods = <<>> /\ sweeps'[s].tried = <<>>
    /\ \A s \in Sweeps :
          (\/ sweeps[s].pc = "list" /\ sweeps'[s].pc \notin {"list", "idle"}
           \/ Len(sweeps'[s].tried) > Len(sweeps[s].tried)) =>
              sweeps[s].cordoned
    /\ (\E p \in Pods : podState[p] = "Running" /\ podState'[p] = "Terminating") =>
          \E s \in Sweeps : sweeps[s].cordoned /\ sweeps'[s].evicted = sweeps[s].evicted + 1

\* C24: a sweep lists and evicts only after the cordon of the Drain.Start
\* that launched it has returned success; no pod is evicted on behalf of a
\* Drain.Start whose cordon has not completed or has failed.
C24_CordonPrecedesEviction ==
    []NoSweepBeforeCordon /\ [][SweepFollowsCordon]_vars

\* The goroutine of a Drain.Start that has not returned yet has evicted a
\* pod, the cordon of that call standing.
C24_Witness ==
    \E h \in Handlers :
        /\ Frame(h).kind = "DrainStart" /\ Frame(h).pc = "return" /\ Frame(h).sweep # 0
        /\ lastOp[Frame(h).node].op = "cordon"
        /\ LET sw == sweeps[Frame(h).sweep]
           IN  sw.cordoned /\ sw.tried # <<>> /\ sw.tried[1].ok

\* The call of slot h, a Drain.End, takes a step.
DrainEndStep(h) ==
    /\ handlers'[h].kind = "DrainEnd" /\ handlers'[h] # handlers[h]
    /\ handlers[h].kind \in {"idle", "DrainEnd"}

\* What a Drain.End has answered is fixed by its request and its listing.
DrainEndAnswersFromListing ==
    \A h \in Handlers :
        Returned(h, "DrainEnd") =>
            LET f == Frame(h)
            IN  /\ f.writes = 0 /\ f.sweep = 0 /\ ~f.fail
                /\ f.calls = 1
                /\ f.listErr => (f.cond = "" /\ f.err # "")
                /\ ~f.listErr => (f.err = "" /\ f.cond = IF f.listed = {} THEN f.end ELSE f.start)

\* A step of a Drain.End leaves the cluster, the goroutines, the lock and
\* the error map as they are; it changes the active event only to empty it,
\* when its listing was empty; and what it lists is what the eligible pods
\* of the node are in that step.
DrainEndMutatesNothing ==
    \A h \in Handlers :
        DrainEndStep(h) =>
            /\ UNCHANGED <<nodeUnsched, podState, lastOp, sweeps, evictionErrors, mu>>
            /\ activeEvent' # activeEvent =>
                  /\ activeEvent' = ""
                  /\ handlers[h].pc = "lock" /\ ListedNone(handlers[h])
            /\ (handlers[h].pc = "list" /\ ~handlers'[h].listErr) =>
                  /\ handlers'[h].listed = Names(listEvictablePods(handlers[h].node))
                  /\ handlers'[h].pc = IF handlers'[h].listed = {} THEN "lock" ELSE "responded"

\* C25: Drain.End writes no node and evicts no pod; all it changes is the
\* active event, which it empties when its listing is empty and only then;
\* and its response is fixed by its request and by the eligible pods of the
\* node, so that against an unchanged cluster it is the same every time.
C25_DrainEndMutatesNothing ==
    []DrainEndAnswersFromListing /\ [][DrainEndMutatesNothing]_vars

\* A Drain.End has found pods left in a drain under way and has answered the
\* start condition: the active event and the error map are as they were.
C25_Witness ==
    \E h \in Handlers :
        /\ Returned(h, "DrainEnd") /\ Frame(h).listed # {}
        /\ Frame(h).cond = DrainStarted
        /\ activeEvent # "" /\ evictionErrors # NoErrors
        /\ nodeUnsched[Frame(h).node]

\* A goroutine that has left its loop has attempted each pod of its list.
ExitsAfterOnePass ==
    \A s \in Sweeps :
        sweeps[s].pc = "done" =>
            (Len(sweeps[s].tried) = Len(sweeps[s].pods) /\ sweeps[s].total = Len(sweeps[s].pods))

\* A step of a call, a later Drain.Start or a Drain.End, leaves every
\* goroutine that runs where it stands, with its list and its context.
CallsLeaveSweepsRunning ==
    handlers' # handlers =>
        \A s \in Sweeps :
            sweeps[s].pc # "idle" =>
                /\ sweeps'[s].pc = sweeps[s].pc /\ sweeps'[s].i = sweeps[s].i
                /\ sweeps'[s].pods = sweeps[s].pods
                /\ sweeps'[s].expired = sweeps[s].expired

\* C26: every goroutine launched ends, after one pass over the list it
\* obtained or when its context has expired, whether or not a Drain.End is
\* made, however many evictions fail, and no Drain.End and no later
\* Drain.Start cancels it.
C26_EverySweepTerminates ==
    /\ \A s \in Sweeps : (sweeps[s].pc # "idle") ~> (sweeps[s].pc = "idle")
    /\ []ExitsAfterOnePass
    /\ [][CallsLeaveSweepsRunning]_vars

\* A goroutine has ended its pass on an expired context, its one eviction
\* failed and recorded, while the goroutine of a later Drain.Start runs.
C26_Witness ==
    \E s, t \in Sweeps :
        /\ sweeps[s].pc = "done" /\ sweeps[s].expired /\ sweeps[s].superseded
        /\ sweeps[s].failed = 1 /\ Len(sweeps[s].tried) = 1
        /\ sweeps[t].pc \notin {"idle", "done"} /\ ~sweeps[t].superseded

\* The node is unschedulable as long as the cordon of a Drain.Start stands:
\* no uncordon and no other client has written the node since.
CordonStands ==
    \A n \in Nodes : lastOp[n].op = "cordon" => nodeUnsched[n]

\* The flag of a node changes in the Update of a cordonNode, which sets it,
\* in the Update of an uncordonNode called by Uncordon.Start or
\* Uncordon.End, which clears it, or by a client outside the driver; no step
\* of a goroutine, of a Drain.End or of the rest of a Drain.Start changes it.
OnlyCordonAndUncordonWrite ==
    \A n \in Nodes :
        nodeUnsched'[n] # nodeUnsched[n] =>
            \/ \E h \in Handlers :
                  /\ handlers[h].kind = "DrainStart" /\ handlers[h].node = n
                  /\ handlers[h].pc = "cordonUpdate" /\ handlers'[h].pc = "cordoned"
                  /\ nodeUnsched'[n] /\ sweeps' = sweeps
            \/ \E h \in Handlers :
                  /\ handlers[h].kind \in {"UncordonStart", "UncordonEnd"} /\ handlers[h].node = n
                  /\ handlers[h].pc = "uncordonUpdate" /\ handlers'[h].pc = "uncordoned"
                  /\ ~nodeUnsched'[n] /\ sweeps' = sweeps
            \/ /\ sweeps' = sweeps /\ activeEvent' = activeEvent
               /\ \A h \in Handlers : handlers'[h].pc = handlers[h].pc
               /\ lastOp'[n] = NoOp

\* C27: only cordon and uncordon write the unschedulable flag: from the
\* cordon of a Drain.Start until an uncordon, no other client writing the
\* node, the node is unschedulable in every state, whatever the sweeps, the
\* Drain.End calls and further Drain.Start calls do; "drain-complete" is
\* then answered for a cordoned node.
C27_OnlyCordonAndUncordonWriteFlag ==
    []CordonStands /\ [][OnlyCordonAndUncordonWrite]_vars

\* "drain-complete" has been answered for the node after a second
\* Drain.Start, which found the node cordoned by the first; the goroutines
\* have ended and the node is unschedulable.
C27_Witness ==
    \E h \in Handlers :
        /\ Returned(h, "DrainEnd") /\ ListedNone(Frame(h)) /\ Frame(h).cond = DrainComplete
        /\ Frame(h).node \in Nodes
        /\ lastOp[Frame(h).node] = Done("cordon", 0)
        /\ nodeUnsched[Frame(h).node]
        /\ \A s \in Sweeps : sweeps[s].pc = "idle"

\* A Drain.End never reads the event of its request, and one whose listing
\* was empty can clear the active event as soon as the lock is free.
DrainEndReadsNoEvent ==
    \A h \in Handlers :
        Frame(h).kind = "DrainEnd" =>
            /\ Frame(h).event = ""
            /\ Frame(h).pc = "lock" =>
                  (ListedNone(Frame(h)) /\ (mu = Free => ENABLED endDrainClear(h)))

\* The step a Drain.End takes after an empty listing empties the active
\* event, whatever it was and whatever node the request names, and answers
\* the end condition; its listing step leaves the active event alone and
\* ends the call when the listing failed or pods remain.
EmptyListingClearsActiveEvent ==
    \A h \in Handlers :
        handlers[h].kind = "DrainEnd" =>
            /\ Leaves(h, "lock") =>
                  /\ activeEvent' = ""
                  /\ handlers'[h].pc = "responded" /\ handlers'[h].cond = DrainComplete
            /\ Leaves(h, "list") =>
                  /\ activeEvent' = activeEvent
                  /\ handlers'[h].pc =
                        IF handlers'[h].listErr \/ handlers'[h].listed # {}
                        THEN "responded" ELSE "lock"

\* C28: Drain.End clears the active event whenever its listing of the
\* requested node is empty, comparing neither the event nor the node of the
\* request with the active event: a Drain.End for another node clears the
\* event a Drain.Start recorded; a Drain.End with pods left or a failed
\* listing leaves the active event as it is.
C28_EmptyListingClearsWhateverEvent ==
    []DrainEndReadsNoEvent /\ [][EmptyListingClearsActiveEvent]_vars

\* A Drain.End for a node without pods has answered "drain-complete" and the
\* active event is empty, while the goroutine of the Drain.Start that
\* recorded an event for n1 has not listed yet and pod 1 runs.
C28_Witness ==
    \E h \in Handlers, s \in Sweeps :
        /\ Returned(h, "DrainEnd") /\ Frame(h).node \in AbsentNodes
        /\ Frame(h).cond = DrainComplete
        /\ activeEvent = ""
        /\ sweeps[s].pc = "list" /\ sweeps[s].node = DefaultNode /\ ~sweeps[s].superseded
        /\ podState[1] = "Running"

=============================================================================
